---- MODULE Spec2Model ----
(***************************************************************************)
(* Traffic-junction simulation (Ruchitha6618/smart-traffic-signal).        *)
(*                                                                         *)
(* The repository holds several alternative scripts for the same page:     *)
(*   "dens"  src/script.js lines 1-547     density-adaptive, Vehicle.step  *)
(*   "slot"  src/script.js lines 549-917   slot-based Car.update           *)
(*   "gap"   src/unnamed/part_000          gap-based Car.move              *)
(* Each script is a frame loop: one call of its loop function is one tick, *)
(* and one tick is one action of the model.  Math.random() draws are the   *)
(* inputs of a tick; they are taken from small sets.                       *)
(*                                                                         *)
(* Lengths are integers.  The slot and gap scripts are modelled in tenths  *)
(* of a pixel (PX units per pixel): a car is described by its coordinate   *)
(* along its lane axis (y for N and S, x for E and W); the other           *)
(* coordinate is the constant lane position.                               *)
(***************************************************************************)
EXTENDS Integers, Sequences, FiniteSets, TLC

VARIABLES
  variant,       \* which script is loaded: "dens", "slot" or "gap"
  signal,        \* slot / gap: the Signal object
  cars,          \* slot / gap: the cars array
  frame,         \* slot: frame ; gap: frameCount
  signalState,   \* dens: signalState {dir, phase}
  timerFrames,   \* dens: timerFrames
  spawnCounter,  \* dens: spawnCounter
  vehicles,      \* dens: the vehicles array
  waiting,       \* signal-only specifications: the non-crossed counts read
  sinceGreen,    \* history: ticks since the current green phase started
  zeroRun,       \* history: directions of the current run of all-zero selections
  recent         \* history: directions of the last (up to 4) green phases

vars == <<variant, signal, cars, frame, signalState, timerFrames,
          spawnCounter, vehicles, waiting, sinceGreen, zeroRun, recent>>

slotGapVars == <<signal, cars, frame>>
densVars == <<signalState, timerFrames, spawnCounter, vehicles>>
histVars == <<waiting, sinceGreen, zeroRun, recent>>

----------------------------------------------------------------------------
(* Shared helpers *)

Dirs == {"N", "E", "S", "W"}

\* the order of every `for(const d of ["N","E","S","W"])` / DIRS loop
DIRS == <<"N", "E", "S", "W">>

Min(a, b) == IF a <= b THEN a ELSE b
Max(a, b) == IF a >= b THEN a ELSE b
Abs(a) == IF a < 0 THEN -a ELSE a

\* Math.round of the rational num/den (den > 0): floor(num/den + 1/2)
Round(num, den) == (2 * num + den) \div (2 * den)

\* Math.ceil of the rational num/den (den > 0)
Ceil(num, den) == -((-num) \div den)

IndexOf(seq, x) == CHOOSE i \in DOMAIN seq : seq[i] = x

\* positions of the slot and gap scripts are in 1/PX pixel
PX == 10

\* canvas size (canvas.width x canvas.height, 1000 x 700)
W == 1000
H == 700
FPS == 60

----------------------------------------------------------------------------
(* "slot" script: src/script.js lines 549-917 *)

ROAD_WIDTH == 180
CAR_LEN == 44
CAR_WID == 24
STOP_GAP == 140
STOP_OFFSET == 30
MAX_CARS == 40
SPAWN_INTERVAL == 50
SLOT_GAP == 65
SLOTS_MAX == 8

CENTER_X == W \div 2
CENTER_Y == H \div 2

\* STOP of the slot script (px)
STOP_slot(d) ==
  CASE d = "N" -> CENTER_Y + STOP_GAP
    [] d = "S" -> CENTER_Y - STOP_GAP
    [] d = "E" -> CENTER_X - STOP_GAP
    [] d = "W" -> CENTER_X + STOP_GAP

\* SLOT_POS with the trailing edge of S and E cars at the slot distance
SLOT_POS_Trailing(d, i) ==
  CASE d = "N" -> (STOP_slot("N") + (i + 1) * SLOT_GAP) * PX
    [] d = "S" -> (STOP_slot("S") - (i + 1) * SLOT_GAP) * PX
    [] d = "E" -> (STOP_slot("E") - (i + 1) * SLOT_GAP) * PX
    [] d = "W" -> (STOP_slot("W") + (i + 1) * SLOT_GAP) * PX

\* SLOT_POS[d][i] along the lane axis (y for N, S; x for E, W), in units
SLOT_POS(d, i) ==
  CASE d = "N" -> (STOP_slot("N") + (i + 1) * SLOT_GAP) * PX
    [] d = "S" -> (STOP_slot("S") - (i + 1) * SLOT_GAP - CAR_LEN) * PX
    [] d = "E" -> (STOP_slot("E") - (i + 1) * SLOT_GAP - CAR_LEN) * PX
    [] d = "W" -> (STOP_slot("W") + (i + 1) * SLOT_GAP) * PX

\* new Car(dir, slot): speed is the Math.random() draw, in units per frame.
\* nan records that x and y are NaN (after a division 0/0 in update).
NewSlotCar(d, s, speed) ==
  [dir |-> d, slot |-> s, crossed |-> FALSE, speed |-> speed,
   pos |-> SLOT_POS(d, s), nan |-> FALSE]

\* Car.front(): the leading edge (h = CAR_LEN for N, S; w = CAR_LEN for E, W)
SlotFront(c) ==
  IF c.dir \in {"S", "E"} THEN c.pos + CAR_LEN * PX ELSE c.pos

\* the four `front() < STOP` / `front() > STOP` tests; false on NaN
SlotPastLine(c) ==
  /\ ~c.nan
  /\ \/ c.dir = "N" /\ SlotFront(c) < STOP_slot("N") * PX
     \/ c.dir = "S" /\ SlotFront(c) > STOP_slot("S") * PX
     \/ c.dir = "E" /\ SlotFront(c) > STOP_slot("E") * PX
     \/ c.dir = "W" /\ SlotFront(c) < STOP_slot("W") * PX

\* the crossed branch of update: straight on at full speed
SlotStraight(c) ==
  [c EXCEPT !.pos = IF c.dir \in {"N", "W"} THEN @ - c.speed ELSE @ + c.speed]

\* the `if(this.slot > 0)` block claiming the slot after the next one
SlotAdvance_Skip(c) ==
  LET nextSlot == c.slot - 1
      d == SLOT_POS(c.dir, nextSlot) - c.pos
      dist == Abs(d)
      step == Min(c.speed, dist)
  IN  IF c.nan THEN c
      ELSE IF dist = 0 THEN [c EXCEPT !.nan = TRUE, !.slot = nextSlot]
      ELSE [c EXCEPT !.pos = IF d > 0 THEN @ + step ELSE @ - step,
                     !.slot = IF dist < PX THEN nextSlot - 1 ELSE @]

\* the `if(this.slot > 0)` block: step toward SLOT_POS[dir][slot-1].
\* dx/dist*step with dist = 0 is 0/0 = NaN; Math.min(speed, NaN) is NaN and
\* NaN < 1 is false.
SlotAdvance(c) ==
  LET nextSlot == c.slot - 1
      d == SLOT_POS(c.dir, nextSlot) - c.pos
      dist == Abs(d)
      step == Min(c.speed, dist)
  IN  IF c.nan THEN c
      ELSE IF dist = 0 THEN [c EXCEPT !.nan = TRUE, !.slot = nextSlot]
      ELSE [c EXCEPT !.pos = IF d > 0 THEN @ + step ELSE @ - step,
                     !.slot = IF dist < PX THEN nextSlot ELSE @]

\* Signal.state() without the yellow display
SlotState_NoYellow(sig) ==
  [d \in Dirs |-> IF d = sig.dir /\ sig.phase = "green" THEN "GREEN" ELSE "RED"]

\* Signal.state() of the slot script
SlotState(sig) ==
  [d \in Dirs |-> IF d # sig.dir THEN "RED"
                  ELSE IF sig.phase = "green" THEN "GREEN" ELSE "YELLOW"]

\* signal.current(): the slot script calls it (line 889) but its Signal class
\* does not define it; the class it was copied from (part_000) returns dir.
SlotCurrent(sig) == sig.dir

\* Car.update(state, curGreen)
CarUpdate(c, state, curGreen) ==
  IF c.crossed THEN SlotStraight(c)
  ELSE IF SlotPastLine(c) THEN SlotStraight([c EXCEPT !.crossed = TRUE])
  ELSE LET myLight == state[c.dir]
           stop == IF c.slot = 0 /\ c.dir = curGreen THEN FALSE
                   ELSE myLight # "GREEN"
       IN  IF ~stop /\ c.slot > 0 THEN SlotAdvance(c) ELSE c

\* Car.offscreen() of the slot script (comparisons with NaN are false)
SlotOffscreen(c) ==
  /\ ~c.nan
  /\ IF c.dir \in {"N", "S"}
       THEN c.pos + CAR_LEN * PX < -200 * PX \/ c.pos > (H + 200) * PX
       ELSE c.pos + CAR_LEN * PX < -200 * PX \/ c.pos > (W + 200) * PX

\* waitingCount(dir)
waitingCount(cs, d) ==
  Cardinality({i \in DOMAIN cs : cs[i].dir = d /\ ~cs[i].crossed})

\* the `for(const d of ["N","E","S","W"]) if(waits[d] > max)` scan, from
\* position i on, with the running max and best
RECURSIVE DensityScan(_, _, _, _)
DensityScan(waits, i, max, best) ==
  IF i > Len(DIRS) THEN [max |-> max, best |-> best]
  ELSE IF waits[DIRS[i]] > max
         THEN DensityScan(waits, i + 1, waits[DIRS[i]], DIRS[i])
         ELSE DensityScan(waits, i + 1, max, best)

\* the rotation order of nextGreenDirection / chooseHighestDensityDirection
ROTATE_ORDER == <<"S", "W", "N", "E">>

\* nextGreenDirection(), given the waits object and signal.dir
nextGreenDirection(waits, cur) ==
  LET r == DensityScan(waits, 1, -1, cur)
  IN  IF r.max = 0
        THEN ROTATE_ORDER[(IndexOf(ROTATE_ORDER, cur) % 4) + 1]
        ELSE r.best

\* Signal.tick() of the slot script; 10 + 1.5*waiting is kept in half
\* seconds, framesLeft = sec * FPS
SlotSignalTick(sig, cs) ==
  LET timer == sig.timer + 1
      left == sig.framesLeft - 1
  IN  IF sig.phase = "green" /\ left <= 0
        THEN [sig EXCEPT !.phase = "yellow", !.timer = 0,
                         !.framesLeft = 3 * FPS]
      ELSE IF sig.phase = "yellow" /\ left <= 0
        THEN LET next == nextGreenDirection(
                           [d \in Dirs |-> waitingCount(cs, d)], sig.dir)
                 halfSec == Min(2 * 35, 2 * 10 + 3 * waitingCount(cs, next))
             IN  [dir |-> next, phase |-> "green", timer |-> 0,
                  framesLeft |-> (halfSec * FPS) \div 2]
      ELSE [sig EXCEPT !.timer = timer, !.framesLeft = left]

\* spawn() searching the slots from 0 upward
SlotSpawn_Lowest(cs, fr, d, speed) ==
  IF fr % SPAWN_INTERVAL # 0 THEN cs
  ELSE IF Len(cs) >= MAX_CARS THEN cs
  ELSE LET filled == {cs[i].slot : i \in {j \in DOMAIN cs : cs[j].dir = d}}
           free == {s \in 0 .. SLOTS_MAX - 1 : s \notin filled}
       IN  IF free = {} THEN cs
           ELSE Append(cs, NewSlotCar(d, CHOOSE s \in free :
                                           \A t \in free : s <= t, speed))

\* spawn(): d is the drawn direction, speed the drawn speed of the new car
SlotSpawn(cs, fr, d, speed) ==
  IF fr % SPAWN_INTERVAL # 0 THEN cs
  ELSE IF Len(cs) >= MAX_CARS THEN cs
  ELSE LET filled == {cs[i].slot : i \in {j \in DOMAIN cs : cs[j].dir = d}}
           free == {s \in 0 .. SLOTS_MAX - 1 : s \notin filled}
       IN  IF free = {} THEN cs
           ELSE Append(cs, NewSlotCar(d, CHOOSE s \in free :
                                           \A t \in free : t <= s, speed))

\* the update loop of loop(): every car is updated (an update reads only
\* the car itself and the signal), then dropped if offscreen
SlotUpdateAll(cs, sig) ==
  LET upd == [i \in DOMAIN cs |->
                CarUpdate(cs[i], SlotState(sig), SlotCurrent(sig))]
  IN  SelectSeq(upd, LAMBDA c : ~SlotOffscreen(c))

SlotSignalInit ==
  [dir |-> "S", phase |-> "green", timer |-> 0, framesLeft |-> 15 * FPS]

\* the draws of the slot script
SlotSpeeds == {PX, (12 * PX) \div 10}

\* frames modelled, and cars alive at once: a run that would hold more
\* cars is not followed further
MaxFrameSlot == 1200
MaxCarsSlot == 3

IdleDens ==
  /\ signalState = [dir |-> "N", phase |-> "green"]
  /\ timerFrames = 0
  /\ spawnCounter = 0
  /\ vehicles = <<>>

IdleHist ==
  /\ waiting = [d \in Dirs |-> 0]
  /\ sinceGreen = 0
  /\ zeroRun = <<>>
  /\ recent = <<>>

InitSlot ==
  /\ variant = "slot"
  /\ signal = SlotSignalInit
  /\ cars = <<>>
  /\ frame = 0
  /\ IdleDens
  /\ IdleHist

\* loop() of the slot script
loop(d, speed) ==
  /\ variant = "slot"
  /\ frame < MaxFrameSlot
  /\ frame' = frame + 1
  /\ signal' = SlotSignalTick(signal, cars)
  /\ cars' = SlotUpdateAll(SlotSpawn(cars, frame', d, speed), signal')
  /\ Len(cars') <= MaxCarsSlot
  /\ UNCHANGED <<variant, densVars, histVars>>

\* on a frame without a spawn the draws are not made
SlotDraws(fr) ==
  IF fr % SPAWN_INTERVAL = 0 /\ Len(cars) < MAX_CARS
    THEN Dirs \X SlotSpeeds
    ELSE {<<"N", PX>>}

NextSlot == \E dr \in SlotDraws(frame + 1) : loop(dr[1], dr[2])

SpecSlot == InitSlot /\ [][NextSlot]_vars

\* C1: in every reachable state of the slot script, no two cars of one
\* direction with crossed = false hold the same slot index.
C1_NoSlotDoubleClaim ==
  variant = "slot" =>
    \A i, j \in DOMAIN cars :
      (i < j /\ cars[i].dir = cars[j].dir
         /\ ~cars[i].crossed /\ ~cars[j].crossed)
        => cars[i].slot # cars[j].slot

----------------------------------------------------------------------------
(* "gap" script: src/unnamed/part_000 *)

BASE_GREEN_FRAMES == 900
YELLOW_FRAMES == 180
SAFE_GAP == 45
CAR_LENGTH == 44
CAR_WIDTH == 24

SCREEN_WIDTH == W
SCREEN_HEIGHT == H

\* STOP_LINES (px); CENTER_X, CENTER_Y are Math.floor(SCREEN_WIDTH / 2),
\* Math.floor(SCREEN_HEIGHT / 2)
STOP_LINES(d) ==
  CASE d = "N" -> (SCREEN_HEIGHT \div 2) + STOP_GAP
    [] d = "S" -> (SCREEN_HEIGHT \div 2) - STOP_GAP
    [] d = "E" -> (SCREEN_WIDTH \div 2) - STOP_GAP
    [] d = "W" -> (SCREEN_WIDTH \div 2) + STOP_GAP

\* new Car(direction): speed = rand(1.2, 1.8) in units per frame, off the
\* value of Math.floor(rand(100,180)) in px.  pos is y (N, S) or x (E, W);
\* the extent of the car along its lane is CAR_LENGTH.
NewGapCar(d, speed, off) ==
  [direction |-> d, speed |-> speed, crossed |-> FALSE,
   pos |-> CASE d = "N" -> (SCREEN_HEIGHT + off) * PX
             [] d = "S" -> (-CAR_LENGTH - off) * PX
             [] d = "E" -> (-CAR_LENGTH - off) * PX
             [] d = "W" -> (SCREEN_WIDTH + off) * PX]

\* Car.frontPos()
GapFrontPos(c) ==
  IF c.direction \in {"S", "E"} THEN c.pos + CAR_LENGTH * PX ELSE c.pos

\* the distance d of gap() from car c to car o ahead of it, or -1 when o is
\* not ahead (`else continue`)
GapDistance(c, o) ==
  IF c.direction \in {"N", "W"}
    THEN IF o.pos < c.pos THEN c.pos - (o.pos + CAR_LENGTH * PX) ELSE -1
    ELSE IF o.pos > c.pos THEN o.pos - (c.pos + CAR_LENGTH * PX) ELSE -1

\* Car.gap(cars) of the car at index i: the set of candidate gaps d >= 0
\* (minGap is its minimum, null when the set is empty)
GapCandidates(cs, i) ==
  {GapDistance(cs[i], cs[j]) :
     j \in {k \in DOMAIN cs : k # i /\ cs[k].direction = cs[i].direction
                               /\ GapDistance(cs[i], cs[k]) >= 0}}

\* Signal.state() of part_000
GapState(sig) ==
  [d \in Dirs |-> IF d # sig.dir THEN "RED"
                  ELSE IF sig.phase = "green" THEN "GREEN" ELSE "YELLOW"]

\* the `front < STOP_LINES` / `front > STOP_LINES` tests of move()
GapPastLine(c) ==
  \/ c.direction = "N" /\ GapFrontPos(c) < STOP_LINES("N") * PX
  \/ c.direction = "S" /\ GapFrontPos(c) > STOP_LINES("S") * PX
  \/ c.direction = "E" /\ GapFrontPos(c) > STOP_LINES("E") * PX
  \/ c.direction = "W" /\ GapFrontPos(c) < STOP_LINES("W") * PX

\* the tests of should_stop with a stop zone of one pixel
GapNearLine_Narrow(c) ==
  \/ c.direction = "N" /\ GapFrontPos(c) <= (STOP_LINES("N") + 1) * PX
  \/ c.direction = "S" /\ GapFrontPos(c) >= (STOP_LINES("S") - 1) * PX
  \/ c.direction = "E" /\ GapFrontPos(c) >= (STOP_LINES("E") - 1) * PX
  \/ c.direction = "W" /\ GapFrontPos(c) <= (STOP_LINES("W") + 1) * PX

\* the STOP_OFFSET tests of should_stop
GapNearLine(c) ==
  \/ c.direction = "N" /\ GapFrontPos(c) <= (STOP_LINES("N") + STOP_OFFSET) * PX
  \/ c.direction = "S" /\ GapFrontPos(c) >= (STOP_LINES("S") - STOP_OFFSET) * PX
  \/ c.direction = "E" /\ GapFrontPos(c) >= (STOP_LINES("E") - STOP_OFFSET) * PX
  \/ c.direction = "W" /\ GapFrontPos(c) <= (STOP_LINES("W") + STOP_OFFSET) * PX

\* Car.move() marking crossed only the car that was not marked before
CarMove_Toggle(cs, i, state, current_green) ==
  LET c == cs[i]
      g == GapCandidates(cs, i)
      stop_for_gap == \E d \in g : d < SAFE_GAP * PX
      light == state[c.direction]
      crossed == ~c.crossed /\ GapPastLine(c)
      should_stop == ~crossed /\ light # "GREEN" /\ GapNearLine(c)
      go == (crossed \/ (~should_stop /\ c.direction = current_green))
              /\ ~stop_for_gap
  IN  [c EXCEPT !.crossed = crossed,
                !.pos = IF ~go THEN @
                        ELSE IF c.direction \in {"N", "W"} THEN @ - c.speed
                        ELSE @ + c.speed]

\* Car.move() letting a car not crossed move whatever direction is current
CarMove_AnyDirection(cs, i, state, current_green) ==
  LET c == cs[i]
      g == GapCandidates(cs, i)
      stop_for_gap == \E d \in g : d < SAFE_GAP * PX
      light == state[c.direction]
      crossed == c.crossed \/ GapPastLine(c)
      should_stop == ~crossed /\ light # "GREEN" /\ GapNearLine(c)
      go == (crossed \/ ~should_stop)
              /\ ~stop_for_gap
  IN  [c EXCEPT !.crossed = crossed,
                !.pos = IF ~go THEN @
                        ELSE IF c.direction \in {"N", "W"} THEN @ - c.speed
                        ELSE @ + c.speed]

\* Car.move(state, current_green, cars) of the car at index i
CarMove(cs, i, state, current_green) ==
  LET c == cs[i]
      g == GapCandidates(cs, i)
      stop_for_gap == \E d \in g : d < SAFE_GAP * PX
      light == state[c.direction]
      crossed == c.crossed \/ GapPastLine(c)
      should_stop == ~crossed /\ light # "GREEN" /\ GapNearLine(c)
      go == (crossed \/ (~should_stop /\ c.direction = current_green))
              /\ ~stop_for_gap
  IN  [c EXCEPT !.crossed = crossed,
                !.pos = IF ~go THEN @
                        ELSE IF c.direction \in {"N", "W"} THEN @ - c.speed
                        ELSE @ + c.speed]

\* Car.offscreen() of part_000
GapOffscreen(c) ==
  IF c.direction \in {"N", "S"}
    THEN c.pos + CAR_LENGTH * PX < -120 * PX
           \/ c.pos > (SCREEN_HEIGHT + 120) * PX
    ELSE c.pos + CAR_LENGTH * PX < -120 * PX
           \/ c.pos > (SCREEN_WIDTH + 120) * PX

\* the loop `for(let i = cars.length - 1; i >= 0; i--)` of updateAndDraw,
\* from index i down: each move reads the cars already moved, and an
\* offscreen car is spliced out at once
RECURSIVE GapMoveAll(_, _, _, _)
GapMoveAll(cs, i, state, current) ==
  IF i = 0 THEN cs
  ELSE LET c == CarMove(cs, i, state, current)
           moved == [cs EXCEPT ![i] = c]
           kept == IF GapOffscreen(c)
                     THEN SubSeq(moved, 1, i - 1) \o SubSeq(moved, i + 1, Len(moved))
                     ELSE moved
       IN  GapMoveAll(kept, i - 1, state, current)

\* countWaitingCars(dir)
countWaitingCars(cs, d) ==
  Cardinality({i \in DOMAIN cs : cs[i].direction = d /\ ~cs[i].crossed})

\* waitingCountsAll()
waitingCountsAll(cs) == [d \in Dirs |-> countWaitingCars(cs, d)]

\* the scan of chooseHighestDensityDirection over ['N','E','S','W']
RECURSIVE HighestScan(_, _, _, _)
HighestScan(counts, i, max, best) ==
  IF i > Len(DIRS) THEN [max |-> max, best |-> best]
  ELSE IF counts[DIRS[i]] > max
         THEN HighestScan(counts, i + 1, counts[DIRS[i]], DIRS[i])
         ELSE HighestScan(counts, i + 1, max, best)

\* chooseHighestDensityDirection() without the rotation on max = 0
chooseHighest_NoRotate(counts, cur) == HighestScan(counts, 1, -1, cur).best

\* chooseHighestDensityDirection(), given the counts and signal.dir
chooseHighestDensityDirection(counts, cur) ==
  LET r == HighestScan(counts, 1, -1, cur)
      order == <<"S", "W", "N", "E">>
  IN  IF r.max = 0
        THEN order[(IndexOf(order, cur) % Len(order)) + 1]
        ELSE r.best

\* greenFrames without the cap of 35 s
GapGreenFrames_NoCap(w) == Round((2 * 10 + 3 * w) * FPS, 2)

\* greenFrames without the factor 1.5
GapGreenFrames_Unit(w) == Round(Min(2 * 35, 2 * 10 + 2 * w) * FPS, 2)

\* greenFrames = Math.round(Math.min(35, 10 + 1.5 * waiting) * FPS);
\* the seconds are kept as halves
GapGreenFrames(w) == Round(Min(2 * 35, 2 * 10 + 3 * w) * FPS, 2)

\* Signal.tick() leaving a phase one tick early
GapSignalTick_Early(sig, counts) ==
  LET timer == sig.timer + 1
      left == sig.timerFramesLeft - 1
  IN  IF sig.phase = "green" /\ left <= 1
        THEN [sig EXCEPT !.phase = "yellow", !.timer = 0,
                         !.timerFramesLeft = YELLOW_FRAMES]
      ELSE IF sig.phase = "yellow" /\ left <= 1
        THEN LET next == chooseHighestDensityDirection(counts, sig.dir)
                 greenFrames == GapGreenFrames(counts[next])
             IN  [dir |-> next, phase |-> "green", timer |-> 0,
                  greenFrames |-> greenFrames,
                  timerFramesLeft |-> greenFrames]
      ELSE [sig EXCEPT !.timer = timer, !.timerFramesLeft = left]

\* Signal.tick() resetting the counter one tick after it reaches 0
GapSignalTick_Late(sig, counts) ==
  LET timer == sig.timer + 1
      left == sig.timerFramesLeft - 1
  IN  IF sig.phase = "green" /\ left < 0
        THEN [sig EXCEPT !.phase = "yellow", !.timer = 0,
                         !.timerFramesLeft = YELLOW_FRAMES]
      ELSE IF sig.phase = "yellow" /\ left < 0
        THEN LET next == chooseHighestDensityDirection(counts, sig.dir)
                 greenFrames == GapGreenFrames(counts[next])
             IN  [dir |-> next, phase |-> "green", timer |-> 0,
                  greenFrames |-> greenFrames,
                  timerFramesLeft |-> greenFrames]
      ELSE [sig EXCEPT !.timer = timer, !.timerFramesLeft = left]

\* Signal.tick() of part_000, reading the cars through counts
GapSignalTick(sig, counts) ==
  LET timer == sig.timer + 1
      left == sig.timerFramesLeft - 1
  IN  IF sig.phase = "green" /\ left <= 0
        THEN [sig EXCEPT !.phase = "yellow", !.timer = 0,
                         !.timerFramesLeft = YELLOW_FRAMES]
      ELSE IF sig.phase = "yellow" /\ left <= 0
        THEN LET next == chooseHighestDensityDirection(counts, sig.dir)
                 greenFrames == GapGreenFrames(counts[next])
             IN  [dir |-> next, phase |-> "green", timer |-> 0,
                  greenFrames |-> greenFrames,
                  timerFramesLeft |-> greenFrames]
      ELSE [sig EXCEPT !.timer = timer, !.timerFramesLeft = left]

\* the signal at start-up with a yellow-length first green
GapSignalInit_Short ==
  [dir |-> "S", phase |-> "green", timer |-> 0,
   greenFrames |-> YELLOW_FRAMES, timerFramesLeft |-> YELLOW_FRAMES]

GapSignalInit ==
  [dir |-> "S", phase |-> "green", timer |-> 0,
   greenFrames |-> BASE_GREEN_FRAMES, timerFramesLeft |-> BASE_GREEN_FRAMES]

\* trySpawn() without the test of cars.length
trySpawn_NoCap(cs, fc, d, speed, off) ==
  IF fc % SPAWN_INTERVAL # 0 THEN cs
  ELSE Append(cs, NewGapCar(d, speed, off))

\* trySpawn(): d, speed, off are the draws
trySpawn(cs, fc, d, speed, off) ==
  IF fc % SPAWN_INTERVAL # 0 THEN cs
  ELSE IF Len(cs) >= MAX_CARS THEN cs
  ELSE Append(cs, NewGapCar(d, speed, off))

\* the draws of part_000: speeds 1.2 and 1.7 px per frame, spawn offsets
GapSpeeds == {(12 * PX) \div 10, (17 * PX) \div 10}
GapOffsets == {100, 150}

\* the draws of the six cars pushed at start-up
GapInitSpeeds == {(15 * PX) \div 10}

\* frames modelled, and cars alive at once
MaxFrameGap == 55
MaxCarsGap == 6

\* `for(let i=0;i<6;i++) cars.push(new Car(['N','E','S','W'][i%4]))`
InitGap ==
  /\ variant = "gap"
  /\ signal = GapSignalInit
  /\ \E sp \in [1 .. 6 -> GapInitSpeeds], off \in [1 .. 6 -> GapOffsets] :
       cars = [i \in 1 .. 6 |-> NewGapCar(DIRS[((i - 1) % 4) + 1], sp[i], off[i])]
  /\ frame = 0
  /\ IdleDens
  /\ IdleHist

\* updateAndDraw() of part_000
updateAndDraw_gap(d, speed, off) ==
  /\ variant = "gap"
  /\ frame < MaxFrameGap
  /\ frame' = frame + 1
  /\ signal' = GapSignalTick(signal, waitingCountsAll(cars))
  /\ LET spawned == trySpawn(cars, frame', d, speed, off)
     IN  cars' = GapMoveAll(spawned, Len(spawned), GapState(signal'), signal'.dir)
  /\ Len(cars') <= MaxCarsGap
  /\ UNCHANGED <<variant, densVars, histVars>>

GapDraws(fc) ==
  IF fc % SPAWN_INTERVAL = 0 /\ Len(cars) < MAX_CARS
    THEN Dirs \X GapSpeeds \X GapOffsets
    ELSE {<<"N", 0, 0>>}

NextGap == \E dr \in GapDraws(frame + 1) : updateAndDraw_gap(dr[1], dr[2], dr[3])

SpecGap == InitGap /\ [][NextGap]_vars

\* the footprints of cars i and j of the gap script along their lane
GapOverlap(i, j) ==
  /\ cars[i].pos < cars[j].pos + CAR_LENGTH * PX
  /\ cars[j].pos < cars[i].pos + CAR_LENGTH * PX

\* C2: in every reachable state of the gap script (the pre-filled start and
\* the state after a spawn included), the footprints of two non-crossed cars
\* of the same direction do not overlap along the lane axis.
C2_NoFootprintOverlap ==
  variant = "gap" =>
    \A i, j \in DOMAIN cars :
      (i < j /\ cars[i].direction = cars[j].direction
         /\ ~cars[i].crossed /\ ~cars[j].crossed)
        => ~GapOverlap(i, j)

----------------------------------------------------------------------------
(* "dens" script: src/script.js, lines 1-547 *)

\* position and speed unit of the dens script: 1/250 px, the grid on which
\* accelRate (0.02), decelRate (0.06) and decelRate * 1.2 are whole numbers
Q == 250

stopOffset == 120
fps == 60
baseGreenSec == 8
yellowSec == 2
maxGreenSec == 30
spawnIntervalFrames == 80
maxVehicles == 220
safeGap == 52
accelRate == (2 * Q) \div 100
decelRate == (6 * Q) \div 100

CX == W \div 2
CY == H \div 2
ROAD_W == ROAD_WIDTH

\* STOP (px)
STOP(d) ==
  CASE d = "N" -> CY + stopOffset
    [] d = "S" -> CY - stopOffset
    [] d = "E" -> CX - stopOffset
    [] d = "W" -> CX + stopOffset

\* LANE[d].startY / startX (px)
LANE_start(d) ==
  CASE d = "N" -> H + 120
    [] d = "S" -> -160
    [] d = "E" -> -160
    [] d = "W" -> W + 160

\* assignDimensions(): w and h of a kind (px)
VehicleW(kind) == CASE kind = "car" -> 36 [] kind = "bike" -> 24 [] OTHER -> 30
VehicleH(kind) == CASE kind = "car" -> 18 [] kind = "bike" -> 10 [] OTHER -> 14

\* the extent of a vehicle along its lane: this.h for N and S (y axis),
\* this.w for E and W (x axis); the sprite is not rotated in the geometry
VehicleExt(v) ==
  IF v.dir \in {"N", "S"} THEN VehicleH(v.kind) * Q ELSE VehicleW(v.kind) * Q

\* new Vehicle(dir, kind): turn, r = rand(0,80) in px and desiredV =
\* baseSpeed() are the draws.  pos is y (N, S) or x (E, W); the other
\* coordinate is the lane centre minus half the width (resetPosition, and the
\* lane align of step()).
NewVehicle(d, kind, turn, r, desiredV) ==
  [dir |-> d, kind |-> kind, turn |-> turn,
   pos |-> IF d \in {"N", "W"} THEN (LANE_start(d) + r) * Q
                              ELSE (LANE_start(d) - r) * Q,
   v |-> 0, desiredV |-> desiredV, crossed |-> FALSE]

\* Vehicle.frontPos()
frontPos(v) == IF v.dir \in {"S", "E"} THEN v.pos + VehicleExt(v) ELSE v.pos

\* the distance d of gapToAhead() from v to o, or -1 when o is not ahead
DistAhead(v, o) ==
  IF v.dir \in {"N", "W"}
    THEN IF o.pos < v.pos THEN v.pos - (o.pos + VehicleExt(o)) ELSE -1
    ELSE IF o.pos > v.pos THEN o.pos - (v.pos + VehicleExt(v)) ELSE -1

\* Vehicle.gapToAhead() of the vehicle at index i: the candidate gaps d >= 0
\* (minGap is their minimum, null when there is none)
gapToAhead(vs, i) ==
  {DistAhead(vs[i], vs[j]) :
     j \in {k \in DOMAIN vs : k # i /\ vs[k].dir = vs[i].dir
                               /\ DistAhead(vs[i], vs[k]) >= 0}}

\* Vehicle.atStopZone()
atStopZone(v) ==
  IF v.dir \in {"N", "W"} THEN frontPos(v) <= (STOP(v.dir) + 6) * Q
                          ELSE frontPos(v) >= (STOP(v.dir) - 6) * Q

\* the `f < STOP` / `f > STOP` tests of step()
PastStop(v) ==
  IF v.dir \in {"N", "W"} THEN frontPos(v) < STOP(v.dir) * Q
                          ELSE frontPos(v) > STOP(v.dir) * Q

\* Vehicle.step() accelerating without the Math.min clamp
step_NoClamp(vs, i, ss) ==
  LET this == vs[i]
      gap == gapToAhead(vs, i)
      tooClose == \E d \in gap : d < safeGap * Q
      crossed == this.crossed \/ PastStop(this)
      allowStart == ss.dir = this.dir /\ ss.phase = "green"
      inStop == ~crossed /\ atStopZone(this)
      shouldStop == ~crossed /\ ~allowStart /\ inStop
      v == IF tooClose \/ shouldStop
             THEN Max(0, this.v - decelRate)
           ELSE IF crossed \/ allowStart
             THEN IF this.v < this.desiredV
                    THEN this.v + accelRate
                    ELSE Max(this.desiredV, this.v)
           ELSE Max(0, this.v - (12 * decelRate) \div 10)
  IN  [this EXCEPT !.crossed = crossed, !.v = v,
                   !.pos = IF v > 0
                             THEN IF this.dir \in {"N", "W"} THEN @ - v ELSE @ + v
                             ELSE @]

\* Vehicle.step() of the vehicle at index i under signal state ss.  The
\* vehicles of the model draw turn = "straight", for which isTurning() is
\* false and the Bezier branch is not taken.
step(vs, i, ss) ==
  LET this == vs[i]
      gap == gapToAhead(vs, i)
      tooClose == \E d \in gap : d < safeGap * Q
      crossed == this.crossed \/ PastStop(this)
      allowStart == ss.dir = this.dir /\ ss.phase = "green"
      inStop == ~crossed /\ atStopZone(this)
      shouldStop == ~crossed /\ ~allowStart /\ inStop
      v == IF tooClose \/ shouldStop
             THEN Max(0, this.v - decelRate)
           ELSE IF crossed \/ allowStart
             THEN IF this.v < this.desiredV
                    THEN Min(this.desiredV, this.v + accelRate)
                    ELSE Max(this.desiredV, this.v)
           ELSE Max(0, this.v - (12 * decelRate) \div 10)
  IN  [this EXCEPT !.crossed = crossed, !.v = v,
                   !.pos = IF v > 0
                             THEN IF this.dir \in {"N", "W"} THEN @ - v ELSE @ + v
                             ELSE @]

\* `for(const v of vehicles) v.step()`, from index i on: each step reads the
\* vehicles already stepped
RECURSIVE StepAll(_, _, _)
StepAll(vs, i, ss) ==
  IF i > Len(vs) THEN vs
  ELSE StepAll([vs EXCEPT ![i] = step(vs, i, ss)], i + 1, ss)

\* Vehicle.offscreen(); the lane coordinate never leaves the canvas
offscreen(v) ==
  IF v.dir \in {"N", "S"}
    THEN v.pos < -260 * Q \/ v.pos > (H + 260) * Q
    ELSE v.pos < -260 * Q \/ v.pos > (W + 260) * Q

\* the key of the painter sort: Math.hypot of the centre offset from
\* (CX, CY).  Every lane-aligned vehicle has the lateral offset ROAD_W / 4,
\* so the order of the hypotenuses is the order of the offsets along the lane.
CentreDist(v) ==
  IF v.dir \in {"N", "S"}
    THEN Abs(v.pos + VehicleExt(v) \div 2 - CY * Q)
    ELSE Abs(v.pos + VehicleExt(v) \div 2 - CX * Q)

\* insert v into the sorted sequence vs behind every element that does not
\* compare greater
RECURSIVE InsertSorted(_, _)
InsertSorted(vs, v) ==
  IF vs = <<>> THEN <<v>>
  ELSE IF CentreDist(vs[Len(vs)]) <= CentreDist(v) THEN Append(vs, v)
  ELSE Append(InsertSorted(SubSeq(vs, 1, Len(vs) - 1), v), vs[Len(vs)])

\* vehicles.sort((a,b) => da - db): a stable sort
RECURSIVE SortVehicles(_)
SortVehicles(vs) ==
  IF vs = <<>> THEN <<>>
  ELSE InsertSorted(SortVehicles(SubSeq(vs, 1, Len(vs) - 1)), vs[Len(vs)])

\* canSpawn(dir) blocked only by a vehicle within 140 px of the lane start
canSpawn_NearStart(vs, d) ==
  \A i \in DOMAIN vs :
    vs[i].dir = d =>
      IF d \in {"N", "W"} THEN ~(vs[i].pos > (LANE_start(d) - 140) * Q)
                         ELSE ~(vs[i].pos < (LANE_start(d) + 140) * Q)

\* canSpawn(dir)
canSpawn(vs, d) ==
  \A i \in DOMAIN vs :
    vs[i].dir = d =>
      IF d \in {"N", "W"} THEN ~(vs[i].pos < (LANE_start(d) + 140) * Q)
                         ELSE ~(vs[i].pos > (LANE_start(d) - 140) * Q)

\* spawnRoutine(), the vehicles after it: the random order of the tries
\* makes d any direction that can spawn
spawnRoutine(vs, sc, d, kind, turn, r, desiredV) ==
  IF sc + 1 < spawnIntervalFrames THEN vs
  ELSE IF Len(vs) >= maxVehicles THEN vs
  ELSE IF canSpawn(vs, d) THEN Append(vs, NewVehicle(d, kind, turn, r, desiredV))
  ELSE vs

\* spawnCounter after spawnRoutine()
spawnCounterNext(sc) == IF sc + 1 < spawnIntervalFrames THEN sc + 1 ELSE 0

\* dens of evaluateAndSwitch: the vehicles not crossed, by direction
densCount(vs) ==
  [d \in Dirs |-> Cardinality({i \in DOMAIN vs : vs[i].dir = d /\ ~vs[i].crossed})]

\* the scan `for(const d of DIRS) if(dens[d] > max)` of evaluateAndSwitch
RECURSIVE MaxScan(_, _, _, _)
MaxScan(dens, i, max, next) ==
  IF i > Len(DIRS) THEN [max |-> max, next |-> next]
  ELSE IF dens[DIRS[i]] > max
         THEN MaxScan(dens, i + 1, dens[DIRS[i]], DIRS[i])
         ELSE MaxScan(dens, i + 1, max, next)

\* the direction chosen at the end of yellow
NextDir(dens, cur) ==
  LET r == MaxScan(dens, 1, -1, "N")
  IN  IF r.max = 0 THEN DIRS[(IndexOf(DIRS, cur) % Len(DIRS)) + 1]
      ELSE r.next

\* timerFrames of the new green: greenSec is kept in tenths of a second
GreenTimer(max) ==
  LET capped == Min(10 * maxGreenSec, 10 * baseGreenSec + max * 16)
      greenSec == IF capped < 10 * baseGreenSec THEN 10 * baseGreenSec ELSE capped
  IN  Round(greenSec * fps, 10)

\* evaluateAndSwitch() going from a green straight to the next green
evaluateAndSwitch_NoYellow(ss, tf, dens) ==
  IF tf - 1 > 0 THEN [ss |-> ss, tf |-> tf - 1]
  ELSE [ss |-> [dir |-> NextDir(dens, ss.dir), phase |-> "green"],
        tf |-> GreenTimer(MaxScan(dens, 1, -1, "N").max)]

\* `timerFrames--; evaluateAndSwitch()`: the signal state and the timer after
\* both, given the counts of the vehicles not crossed
evaluateAndSwitch(ss, tf, dens) ==
  IF tf - 1 > 0 THEN [ss |-> ss, tf |-> tf - 1]
  ELSE IF ss.phase = "green"
    THEN [ss |-> [ss EXCEPT !.phase = "yellow"], tf |-> yellowSec * fps]
  ELSE IF ss.phase = "yellow"
    THEN [ss |-> [dir |-> NextDir(dens, ss.dir), phase |-> "green"],
          tf |-> GreenTimer(MaxScan(dens, 1, -1, "N").max)]
  ELSE [ss |-> ss, tf |-> tf - 1]

\* the draws of the dens script: vehicle kinds, chooseTurn(), rand(0,80) in
\* px, and baseSpeed() of each kind (0.9 and 1.1, 1.0, 0.8 px per frame)
Kinds == {"car", "bike", "auto"}
DensTurns == {"straight"}
DensOffsets == {0, 65}
baseSpeed(kind) ==
  CASE kind = "car" -> {(90 * Q) \div 100, (110 * Q) \div 100}
    [] kind = "bike" -> {Q}
    [] OTHER -> {(80 * Q) \div 100}

\* frames of the dens script modelled
MaxFrameDens == 620

\* INIT: four rounds of cars N, E, S, W, then six vehicles DIRS[i % 4] of a
\* drawn kind; timerFrames = baseGreenSec * fps, N green.  The draws of a
\* run: r1 for the vehicles of the first round and r2 for the others, one
\* speed per kind, one kind and one turn for the six.
InitDens ==
  /\ variant = "dens"
  /\ signalState = [dir |-> "N", phase |-> "green"]
  /\ timerFrames = baseGreenSec * fps
  /\ spawnCounter = 0
  /\ \E r1, r2 \in DensOffsets, k \in Kinds, t \in DensTurns :
       \E sc \in baseSpeed("car"), sk \in baseSpeed(k) :
         vehicles =
           [i \in 1 .. 16 |->
              NewVehicle(DIRS[((i - 1) % 4) + 1], "car", t,
                         IF i <= 4 THEN r1 ELSE r2, sc)]
           \o [i \in 1 .. 6 |-> NewVehicle(DIRS[((i - 1) % 4) + 1], k, t, r2, sk)]
  /\ frame = 0
  /\ signal = SlotSignalInit
  /\ cars = <<>>
  /\ IdleHist

\* updateAndDraw() of the dens script
updateAndDraw(d, kind, turn, r, desiredV) ==
  /\ variant = "dens"
  /\ frame < MaxFrameDens
  /\ frame' = frame + 1
  /\ LET sw == evaluateAndSwitch(signalState, timerFrames, densCount(vehicles))
         spawned == spawnRoutine(vehicles, spawnCounter, d, kind, turn, r, desiredV)
         stepped == StepAll(spawned, 1, sw.ss)
     IN  /\ signalState' = sw.ss
         /\ timerFrames' = sw.tf
         /\ vehicles' = SortVehicles(SelectSeq(stepped, LAMBDA v : ~offscreen(v)))
  /\ spawnCounter' = spawnCounterNext(spawnCounter)
  /\ UNCHANGED <<variant, signal, cars, histVars>>

\* the draws a frame uses: those of a new Vehicle when spawnRoutine() pushes
DensDraws ==
  IF spawnCounter + 1 >= spawnIntervalFrames /\ Len(vehicles) < maxVehicles
       /\ \E d \in Dirs : canSpawn(vehicles, d)
    THEN {<<d, k, t, r, sv>> \in Dirs \X Kinds \X DensTurns \X DensOffsets
                                   \X UNION {baseSpeed(kk) : kk \in Kinds} :
            canSpawn(vehicles, d) /\ sv \in baseSpeed(k)}
    ELSE {<<"N", "car", "straight", 0, Q>>}

NextDens ==
  \E dr \in DensDraws : updateAndDraw(dr[1], dr[2], dr[3], dr[4], dr[5])

SpecDens == InitDens /\ [][NextDens]_vars

\* C3: in the dens script the leading edge of a vehicle is past its stop line
\* at the end of a frame, with the vehicle not yet marked crossed (it passed
\* in this frame), only if its direction is the active one and the phase is
\* green; on yellow or red a vehicle not past the line stays behind it.
C3_PassOnlyOnGreen ==
  variant = "dens" =>
    \A i \in DOMAIN vehicles :
      (~vehicles[i].crossed /\ PastStop(vehicles[i]))
        => (signalState.dir = vehicles[i].dir /\ signalState.phase = "green")

----------------------------------------------------------------------------
(* The selection at the end of yellow, as a function of the waiting counts.
   The cars are left out: `waiting` holds the counts of the cars not crossed
   that the tick reads, `recent` the green directions in order. *)

\* waiting counts tried: 0 .. MaxQueue and the longer queues of a script
MaxQueue == 2

\* longer queues: part_000 keeps cars of a red direction until MAX_CARS; the
\* dens script starts with 5 or 6 vehicles per direction; the slot script
\* holds up to SLOTS_MAX cars on E and W, and none on N and S (a car spawned
\* there takes slot 7, off the canvas, and is removed in the same frame)
LongQueues(var) ==
  CASE var = "gap" -> {10, 17}
    [] var = "dens" -> {5}
    [] OTHER -> {5}

\* the vectors of waiting counts tried for a script
WaitingVectors(var) ==
  {w \in [Dirs -> (0 .. MaxQueue) \cup LongQueues(var)] :
     /\ w["N"] + w["E"] + w["S"] + w["W"] <= MAX_CARS
     /\ var = "slot" => (w["N"] = 0 /\ w["S"] = 0)}

\* Signal.tick() of the slot script, given the counts
SlotTickCounts(sig, waits) ==
  LET left == sig.framesLeft - 1
  IN  IF sig.phase = "green" /\ left <= 0
        THEN [sig EXCEPT !.phase = "yellow", !.timer = 0, !.framesLeft = 3 * FPS]
      ELSE IF sig.phase = "yellow" /\ left <= 0
        THEN LET next == nextGreenDirection(waits, sig.dir)
                 halfSec == Min(2 * 35, 2 * 10 + 3 * waits[next])
             IN  [dir |-> next, phase |-> "green", timer |-> 0,
                  framesLeft |-> (halfSec * FPS) \div 2]
      ELSE [sig EXCEPT !.timer = @ + 1, !.framesLeft = left]

\* the state one tick before the end of a yellow of direction cur
InitSelect ==
  /\ variant \in {"dens", "gap", "slot"}
  /\ waiting \in WaitingVectors(variant)
  /\ \E cur \in Dirs :
       /\ recent = <<cur>>
       /\ signalState = [dir |-> IF variant = "dens" THEN cur ELSE "N",
                         phase |-> IF variant = "dens" THEN "yellow" ELSE "green"]
       /\ signal = CASE variant = "gap" ->
                          [dir |-> cur, phase |-> "yellow",
                           timer |-> YELLOW_FRAMES - 1,
                           greenFrames |-> GapGreenFrames(0),
                           timerFramesLeft |-> 1]
                     [] variant = "slot" ->
                          [dir |-> cur, phase |-> "yellow",
                           timer |-> 3 * FPS - 1, framesLeft |-> 1]
                     [] OTHER -> SlotSignalInit
  /\ timerFrames = IF variant = "dens" THEN 1 ELSE 0
  /\ spawnCounter = 0
  /\ vehicles = <<>>
  /\ cars = <<>>
  /\ frame = 0
  /\ sinceGreen = 0
  /\ zeroRun = <<>>

\* the tick that ends the yellow in the dens script
SelectDens ==
  /\ variant = "dens"
  /\ Len(recent) = 1
  /\ LET sw == evaluateAndSwitch(signalState, timerFrames, waiting)
     IN  /\ signalState' = sw.ss
         /\ timerFrames' = sw.tf
         /\ recent' = Append(recent, sw.ss.dir)
  /\ UNCHANGED <<variant, signal, cars, frame, spawnCounter, vehicles,
                 waiting, sinceGreen, zeroRun>>

\* the tick that ends the yellow in part_000
SelectGap ==
  /\ variant = "gap"
  /\ Len(recent) = 1
  /\ signal' = GapSignalTick(signal, waiting)
  /\ recent' = Append(recent, signal'.dir)
  /\ UNCHANGED <<variant, cars, frame, densVars, waiting, sinceGreen, zeroRun>>

\* the tick that ends the yellow in the slot script
SelectSlot ==
  /\ variant = "slot"
  /\ Len(recent) = 1
  /\ signal' = SlotTickCounts(signal, waiting)
  /\ recent' = Append(recent, signal'.dir)
  /\ UNCHANGED <<variant, cars, frame, densVars, waiting, sinceGreen, zeroRun>>

NextSelect == SelectDens \/ SelectGap \/ SelectSlot

SpecSelect == InitSelect /\ [][NextSelect]_vars

\* the largest waiting count
MaxCount(w) == Max(Max(w["N"], w["E"]), Max(w["S"], w["W"]))

\* the directions with the largest waiting count
Maxima(w) == {d \in Dirs : w[d] = MaxCount(w)}

\* the first direction of D in the order N, E, S, W
FirstInOrder(D) == DIRS[CHOOSE i \in 1 .. 4 : DIRS[i] \in D /\ \A j \in 1 .. i - 1 : DIRS[j] \notin D]

\* C5: when yellow ends with some direction waiting, the next green
\* direction is the current one if it is among the directions with the
\* largest count of cars not crossed, and otherwise the first of those
\* directions in the order N, E, S, W.
C5_KeepCurrentOnTie ==
  (Len(recent) = 2 /\ MaxCount(waiting) > 0) =>
    recent[2] = IF recent[1] \in Maxima(waiting) THEN recent[1]
                ELSE FirstInOrder(Maxima(waiting))

\* the green duration of the claim, seconds in tenths:
\* round(FPS * clamp(base + factor * w, base, max))
ClaimGreenFrames(base10, factor10, max10, w) ==
  Round(FPS * Max(base10, Min(max10, base10 + factor10 * w)), 10)

\* the remaining-frames counter of the signal of the script
FramesLeft ==
  CASE variant = "dens" -> timerFrames
    [] variant = "gap" -> signal.timerFramesLeft
    [] OTHER -> signal.framesLeft

\* C7: at a Yellow->Green transition the new green duration in frames is
\* round(FPS * clamp(base + factor * w, base, max)) with w the count of cars
\* not crossed of the newly selected direction: base 10, factor 1.5, max 35
\* in part_000 (600 frames for w = 0, 1500 for w = 10, 2100 from the cap on),
\* base 8, factor 1.6, max 30 in script.js.
C7_GreenDuration ==
  /\ (variant = "gap" /\ Len(recent) = 2) =>
       /\ signal.phase = "green"
       /\ FramesLeft = ClaimGreenFrames(100, 15, 350, waiting[signal.dir])
       /\ signal.greenFrames = FramesLeft
       /\ waiting[signal.dir] = 0 => FramesLeft = 600
       /\ waiting[signal.dir] = 10 => FramesLeft = 1500
       /\ waiting[signal.dir] >= 17 => FramesLeft = 2100
  /\ (variant = "dens" /\ Len(recent) = 2) =>
       /\ signalState.phase = "green"
       /\ FramesLeft = ClaimGreenFrames(80, 16, 300, waiting[signalState.dir])
  /\ GapGreenFrames(50) = 2100

\* a selection of part_000 for a direction with 10 cars waiting
C7_Witness ==
  /\ variant = "gap"
  /\ Len(recent) = 2
  /\ waiting[signal.dir] = 10
  /\ signal.timerFramesLeft = 1500

----------------------------------------------------------------------------
(* The signals of script.js (dens) and part_000 over time.  The cars are
   left out: the counts of the cars not crossed that a selection reads are an
   input of the tick.  sinceGreen counts the ticks since the current green
   began; zeroRun lists the directions of a run of consecutive selections
   that found no car waiting, led by the direction the run started from. *)

\* the tick ends a yellow
GapSelects(sig) == sig.phase = "yellow" /\ sig.timerFramesLeft - 1 <= 0
DensSelects(ss, tf) == ss.phase = "yellow" /\ tf - 1 <= 0
SlotSelects(sig) == sig.phase = "yellow" /\ sig.framesLeft - 1 <= 0

\* the counts a tick reads: they matter at a selection only
TickCounts(var, selects) ==
  IF selects THEN WaitingVectors(var) ELSE {[d \in Dirs |-> 0]}

\* the last n elements of seq
LastN(seq, n) == SubSeq(seq, Max(1, Len(seq) - n + 1), Len(seq))

\* zeroRun after a tick
ZeroRunNext(selects, counts, cur, new) ==
  IF ~selects THEN zeroRun
  ELSE IF \A d \in Dirs : counts[d] = 0
    THEN LastN(Append(IF zeroRun = <<>> THEN <<cur>> ELSE zeroRun, new), 5)
  ELSE <<>>

InitSignal ==
  /\ variant \in {"dens", "gap", "slot"}
  /\ signal = IF variant = "slot" THEN SlotSignalInit ELSE GapSignalInit
  /\ signalState = [dir |-> "N", phase |-> "green"]
  /\ timerFrames = baseGreenSec * fps
  /\ spawnCounter = 0
  /\ vehicles = <<>>
  /\ cars = <<>>
  /\ frame = 0
  /\ IdleHist

\* Signal.tick() of part_000
tick(counts) ==
  /\ variant = "gap"
  /\ signal' = GapSignalTick(signal, counts)
  /\ sinceGreen' = IF GapSelects(signal) THEN 0 ELSE sinceGreen + 1
  /\ zeroRun' = ZeroRunNext(GapSelects(signal), counts, signal.dir, signal'.dir)
  /\ UNCHANGED <<variant, cars, frame, densVars, waiting, recent>>

\* `timerFrames--; evaluateAndSwitch()` of script.js
timerTick(counts) ==
  /\ variant = "dens"
  /\ LET sw == evaluateAndSwitch(signalState, timerFrames, counts)
     IN  /\ signalState' = sw.ss
         /\ timerFrames' = sw.tf
         /\ zeroRun' = ZeroRunNext(DensSelects(signalState, timerFrames), counts,
                                   signalState.dir, sw.ss.dir)
  /\ sinceGreen' = IF DensSelects(signalState, timerFrames) THEN 0 ELSE sinceGreen + 1
  /\ UNCHANGED <<variant, signal, cars, frame, spawnCounter, vehicles, waiting, recent>>

\* Signal.tick() of the slot script
slotTick(counts) ==
  /\ variant = "slot"
  /\ signal' = SlotTickCounts(signal, counts)
  /\ sinceGreen' = IF SlotSelects(signal) THEN 0 ELSE sinceGreen + 1
  /\ zeroRun' = ZeroRunNext(SlotSelects(signal), counts, signal.dir, signal'.dir)
  /\ UNCHANGED <<variant, cars, frame, densVars, waiting, recent>>

NextSignal ==
  \/ \E counts \in TickCounts("gap", variant = "gap" /\ GapSelects(signal)) : tick(counts)
  \/ \E counts \in TickCounts("dens", DensSelects(signalState, timerFrames)) :
       timerTick(counts)
  \/ \E counts \in TickCounts("slot", variant = "slot" /\ SlotSelects(signal)) :
       slotTick(counts)

SpecSignal == InitSignal /\ [][NextSignal]_vars

\* the successor of d in the cyclic order
CycleNext(order, d) == order[(IndexOf(order, d) % Len(order)) + 1]

\* the rotation order of the script
RotationOrder == IF variant = "dens" THEN <<"N", "E", "S", "W">> ELSE <<"S", "W", "N", "E">>

\* C6: when yellow ends and no direction has a car waiting, the next green
\* direction is the successor of the current one in a fixed cyclic order, so
\* four consecutive such selections give green to each direction exactly once.
C6_ZeroRotation ==
  /\ \A i \in 1 .. Len(zeroRun) - 1 : zeroRun[i + 1] = CycleNext(RotationOrder, zeroRun[i])
  /\ Len(zeroRun) = 5 =>
       /\ {zeroRun[i] : i \in 2 .. 5} = Dirs
       /\ \A i, j \in 2 .. 5 : i # j => zeroRun[i] # zeroRun[j]

\* part_000 after four consecutive selections with no car waiting
C6_Witness == variant = "gap" /\ Len(zeroRun) = 5 /\ signal.phase = "green"

\* C8: on every tick the remaining-frames counter, which is > 0 before the
\* tick, goes down by exactly 1; while it stays above 0 the phase and the
\* direction are unchanged, and the phase or the direction change only on the
\* tick on which the counter reaches 0 (it is then reloaded).
C8_CounterStep ==
  [][ /\ variant = "gap" =>
           /\ signal.timerFramesLeft > 0
           /\ signal.timerFramesLeft > 1 =>
                /\ signal'.timerFramesLeft = signal.timerFramesLeft - 1
                /\ signal'.phase = signal.phase
                /\ signal'.dir = signal.dir
           /\ signal.timerFramesLeft = 1 => signal'.phase # signal.phase
           /\ (signal'.phase # signal.phase \/ signal'.dir # signal.dir)
                => signal.timerFramesLeft = 1
      /\ variant = "dens" =>
           /\ timerFrames > 0
           /\ timerFrames > 1 =>
                /\ timerFrames' = timerFrames - 1
                /\ signalState' = signalState
           /\ timerFrames = 1 => signalState'.phase # signalState.phase
           /\ signalState' # signalState => timerFrames = 1
    ]_vars

\* part_000 on the tick the first green runs out: yellow, counter reloaded
C8_Witness ==
  /\ variant = "gap"
  /\ signal.phase = "yellow"
  /\ signal.timerFramesLeft = YELLOW_FRAMES
  /\ sinceGreen = BASE_GREEN_FRAMES

\* C9: the signal alternates Green(d) -> Yellow(d) -> Green(d'): a green is
\* left only for the yellow of the same direction with the counter set to
\* the yellow duration, a yellow only for a green, and the direction changes
\* only on a step from yellow to green.
C9_Alternation ==
  [][ /\ variant = "gap" =>
           /\ signal.phase = "green" =>
                \/ /\ signal'.phase = "green"
                   /\ signal'.dir = signal.dir
                   /\ signal'.timerFramesLeft = signal.timerFramesLeft - 1
                \/ /\ signal'.phase = "yellow"
                   /\ signal'.dir = signal.dir
                   /\ signal'.timerFramesLeft = YELLOW_FRAMES
           /\ signal.phase = "yellow" =>
                \/ /\ signal'.phase = "yellow"
                   /\ signal'.dir = signal.dir
                   /\ signal'.timerFramesLeft = signal.timerFramesLeft - 1
                \/ signal'.phase = "green"
           /\ signal'.dir # signal.dir
                => (signal.phase = "yellow" /\ signal'.phase = "green")
      /\ variant = "dens" =>
           /\ signalState.phase = "green" =>
                \/ signalState' = signalState /\ timerFrames' = timerFrames - 1
                \/ /\ signalState' = [signalState EXCEPT !.phase = "yellow"]
                   /\ timerFrames' = yellowSec * fps
           /\ signalState.phase = "yellow" =>
                \/ signalState' = signalState /\ timerFrames' = timerFrames - 1
                \/ signalState'.phase = "green"
           /\ signalState'.dir # signalState.dir
                => (signalState.phase = "yellow" /\ signalState'.phase = "green")
    ]_vars

\* script.js right after a yellow of N gave the green to another direction
C9_Witness ==
  /\ variant = "dens"
  /\ signalState.phase = "green"
  /\ signalState.dir = "S"
  /\ sinceGreen = 0
  /\ timerFrames = GreenTimer(5)

\* C10: a green that has started is yellow after at most maxGreenSeconds *
\* FPS ticks, and the next selection comes after at most (maxGreenSeconds +
\* yellowSeconds) * FPS ticks, whatever the waiting counts (35 s and 3 s in
\* part_000, 30 s and 2 s in script.js).
C10_BoundedResponse ==
  /\ variant = "gap" =>
       /\ signal.phase = "green" => sinceGreen < 35 * FPS
       /\ sinceGreen < (35 + 3) * FPS
  /\ variant = "dens" =>
       /\ signalState.phase = "green" => sinceGreen < maxGreenSec * fps
       /\ sinceGreen < (maxGreenSec + yellowSec) * fps

\* part_000 on the last tick of the yellow that follows a green of 35 s
C10_Witness ==
  /\ variant = "gap"
  /\ signal.phase = "yellow"
  /\ sinceGreen = (35 + 3) * FPS - 1

----------------------------------------------------------------------------
(* The signal of part_000 over Green-Yellow cycles: `recent` lists the green
   directions in order, the first green included. *)

\* Green-Yellow cycles modelled
MaxCycles == 4

\* the counts a selection reads
CycleCounts(selects) ==
  IF selects THEN [Dirs -> 0 .. 1] ELSE {[d \in Dirs |-> 0]}

InitCycles ==
  /\ variant = "gap"
  /\ signal = GapSignalInit
  /\ IdleDens
  /\ cars = <<>>
  /\ frame = 0
  /\ waiting = [d \in Dirs |-> 0]
  /\ sinceGreen = 0
  /\ zeroRun = <<>>
  /\ recent = <<GapSignalInit.dir>>

\* Signal.tick() of part_000
tickCycle(counts) ==
  /\ variant = "gap"
  /\ Len(recent) < MaxCycles
  /\ signal' = GapSignalTick(signal, counts)
  /\ recent' = IF GapSelects(signal) THEN Append(recent, signal'.dir) ELSE recent
  /\ UNCHANGED <<variant, cars, frame, densVars, waiting, sinceGreen, zeroRun>>

NextCycles == \E counts \in CycleCounts(GapSelects(signal)) : tickCycle(counts)

SpecCycles == InitCycles /\ [][NextCycles]_vars

\* C4: whatever cars are spawned and moved, each of the four directions is
\* the green direction at least once in any 4 consecutive Green-Yellow cycles.
C4_EveryDirectionInFourCycles ==
  Len(recent) >= 4 =>
    {recent[i] : i \in Len(recent) - 3 .. Len(recent)} = Dirs

----------------------------------------------------------------------------
(* The signal of part_000 from start-up, frame by frame: `frame` is
   frameCount, the cars are left out as in the signal specification above. *)

\* frames of the signal of part_000 modelled from start-up
MaxFrameTiming == 1100

InitTiming ==
  /\ variant = "gap"
  /\ signal = GapSignalInit
  /\ frame = 0
  /\ cars = <<>>
  /\ IdleDens
  /\ IdleHist

\* `frameCount++; signal.tick()` of updateAndDraw in part_000
frameTick(counts) ==
  /\ variant = "gap"
  /\ frame < MaxFrameTiming
  /\ frame' = frame + 1
  /\ signal' = GapSignalTick(signal, counts)
  /\ UNCHANGED <<variant, cars, densVars, histVars>>

NextTiming == \E counts \in TickCounts("gap", GapSelects(signal)) : frameTick(counts)

SpecTiming == InitTiming /\ [][NextTiming]_vars

\* C11: in part_000, from the initial green with 900 frames remaining, the
\* phase is green after each of the ticks 1..899, yellow of the same
\* direction after the 900th tick and through tick 1079, and green after the
\* 1080th tick.
C11_PhaseTiming ==
  variant = "gap" =>
    /\ frame \in 0 .. 899 =>
         /\ signal.phase = "green"
         /\ signal.dir = "S"
         /\ signal.timerFramesLeft = 900 - frame
    /\ frame \in 900 .. 1079 =>
         /\ signal.phase = "yellow"
         /\ signal.dir = "S"
         /\ signal.timerFramesLeft = 1080 - frame
    /\ frame = 1080 => (signal.phase = "green" /\ signal.timer = 0)

\* part_000 after the 1080th tick, with a new green
C11_Witness ==
  /\ variant = "gap"
  /\ frame = 1080
  /\ signal.phase = "green"
  /\ signal.timerFramesLeft = signal.greenFrames

----------------------------------------------------------------------------
\* the directions a display state shows as not red
NonRed(st) == {d \in Dirs : st[d] # "RED"}

\* C12: in every reachable state Signal.state() shows exactly one direction
\* as GREEN or YELLOW, the active one, and the other three as RED.
C12_OneActiveDirection ==
  /\ variant = "gap" =>
       /\ NonRed(GapState(signal)) = {signal.dir}
       /\ GapState(signal)[signal.dir] \in {"GREEN", "YELLOW"}
       /\ \A d \in Dirs \ {signal.dir} : GapState(signal)[d] = "RED"
  /\ variant = "slot" =>
       /\ NonRed(SlotState(signal)) = {signal.dir}
       /\ SlotState(signal)[signal.dir] \in {"GREEN", "YELLOW"}
       /\ \A d \in Dirs \ {signal.dir} : SlotState(signal)[d] = "RED"

\* the slot script during a yellow of W
C12_Witness ==
  /\ variant = "slot"
  /\ signal.phase = "yellow"
  /\ signal.dir = "W"
  /\ SlotState(signal)["W"] = "YELLOW"

----------------------------------------------------------------------------
\* C14: at the end of every tick a vehicle of the dens script or of part_000
\* is marked crossed if and only if its leading edge is beyond the stop line
\* of its direction.
C14_CrossedIffPastLine ==
  /\ variant = "dens" =>
       \A i \in DOMAIN vehicles : vehicles[i].crossed <=> PastStop(vehicles[i])
  /\ variant = "gap" =>
       \A i \in DOMAIN cars : cars[i].crossed <=> GapPastLine(cars[i])

----------------------------------------------------------------------------
\* another car of the direction of cs[i], not crossed, holds the slot below
\* the slot of cs[i]
SlotAheadHeld(cs, i) ==
  \E j \in DOMAIN cs \ {i} :
    /\ cs[j].dir = cs[i].dir
    /\ ~cs[j].crossed
    /\ cs[j].slot = cs[i].slot - 1

\* C15: in the slot script a car not crossed at slot i > 0 moves toward slot
\* i-1 in a tick if and only if no other car of its direction, not crossed,
\* holds slot i-1, whatever the light shows; when the slot is held, the
\* position and the slot index of the car are unchanged.
C15_AdvanceIffFree ==
  [][variant = "slot" =>
       \A i \in DOMAIN cars :
         (i \in DOMAIN cars' /\ ~cars[i].crossed /\ cars[i].slot > 0)
           => (~SlotAheadHeld(cars, i)
                 <=> (cars'[i].pos # cars[i].pos \/ cars'[i].slot # cars[i].slot))]_vars

----------------------------------------------------------------------------
(* Long runs of the three scripts, with the number of cars not cut: the
   spawn draws of part_000 and of the slot script follow a schedule that
   fills the lanes (the directions drawn stay in the queue while another
   direction is green), the dens script runs as in SpecDens. *)

\* frames of the long runs
MaxFrameGapRun == 1800
MaxFrameSlotRun == 3000

\* the direction drawn by trySpawn() at frame fc of the run of part_000:
\* E while S holds the first green and its yellow, W afterwards
GapRunDir(fc) ==
  IF fc <= BASE_GREEN_FRAMES + YELLOW_FRAMES THEN "E" ELSE "W"

\* the run of part_000 starts with the six cars at offset 100
InitGapRun ==
  /\ InitGap
  /\ \A i \in DOMAIN cars :
       cars[i] = NewGapCar(cars[i].direction, (15 * PX) \div 10, 100)

\* updateAndDraw() of part_000, spawn draws by schedule
gapFrame ==
  /\ variant = "gap"
  /\ frame < MaxFrameGapRun
  /\ frame' = frame + 1
  /\ signal' = GapSignalTick(signal, waitingCountsAll(cars))
  /\ LET spawned == trySpawn(cars, frame', GapRunDir(frame'),
                             (12 * PX) \div 10, 100)
     IN  cars' = GapMoveAll(spawned, Len(spawned), GapState(signal'), signal'.dir)
  /\ UNCHANGED <<variant, densVars, histVars>>

\* loop() of the slot script, every spawn drawing direction E
slotFrame ==
  /\ variant = "slot"
  /\ frame < MaxFrameSlotRun
  /\ frame' = frame + 1
  /\ signal' = SlotSignalTick(signal, cars)
  /\ cars' = SlotUpdateAll(SlotSpawn(cars, frame', "E", (12 * PX) \div 10), signal')
  /\ UNCHANGED <<variant, densVars, histVars>>

InitRuns == InitGapRun \/ InitSlot \/ InitDens

NextRuns ==
  \/ gapFrame
  \/ slotFrame
  \/ NextDens

SpecRuns == InitRuns /\ [][NextRuns]_vars
\* the display states and signal states a tick can pass to an update
DisplayStates ==
  {[d \in Dirs |-> IF d # g THEN "RED" ELSE col] :
     g \in Dirs, col \in {"GREEN", "YELLOW"}}
SignalStates == [dir : Dirs, phase : {"green", "yellow"}]

\* n, a car after a tick of part_000, is where the move of car c of the
\* state before leaves it: same lane and speed, at the place of c or one
\* move further
GapSameCar(c, n) ==
  /\ n.direction = c.direction
  /\ n.speed = c.speed
  /\ \/ n.pos = c.pos
     \/ n.pos = IF c.direction \in {"N", "W"} THEN c.pos - c.speed
                                              ELSE c.pos + c.speed

\* n, a vehicle after a tick of the dens script, is where the step of
\* vehicle c leaves it: same lane, kind and desired speed, at most
\* max(v, desiredV) further
VehicleSame(c, n) ==
  /\ n.dir = c.dir
  /\ n.kind = c.kind
  /\ n.desiredV = c.desiredV
  /\ LET moved == IF c.dir \in {"N", "W"} THEN c.pos - n.pos ELSE n.pos - c.pos
     IN  moved \in 0 .. Max(c.v, c.desiredV)

\* C13: crossed is monotone in every script: a vehicle marked crossed is
\* marked crossed after every later tick, until it is removed.  The update
\* of a crossed vehicle (Car.move, Vehicle.step, Car.update) leaves it
\* crossed under every signal, and no vehicle of the next state that
\* continues a crossed vehicle is not crossed.
C13_CrossedMonotone ==
  [][/\ variant = "gap" =>
          \A i \in DOMAIN cars :
            cars[i].crossed =>
              /\ \A st \in DisplayStates, g \in Dirs :
                   CarMove(cars, i, st, g).crossed
              /\ \A j \in DOMAIN cars' :
                   GapSameCar(cars[i], cars'[j]) => cars'[j].crossed
     /\ variant = "dens" =>
          \A i \in DOMAIN vehicles :
            vehicles[i].crossed =>
              /\ \A ss \in SignalStates : step(vehicles, i, ss).crossed
              /\ \A j \in DOMAIN vehicles' :
                   VehicleSame(vehicles[i], vehicles'[j]) => vehicles'[j].crossed
     /\ variant = "slot" =>
          \A i \in DOMAIN cars :
            /\ \A st \in DisplayStates, g \in Dirs :
                 CarUpdate([cars[i] EXCEPT !.crossed = TRUE], st, g).crossed
            /\ cars[i].crossed =>
                 \A j \in DOMAIN cars' :
                   (cars'[j].dir = cars[i].dir /\ cars'[j].slot = cars[i].slot)
                     => cars'[j].crossed]_vars

\* part_000 with a car well past its stop line, marked crossed for many
\* ticks, next to cars still waiting
C13_Witness ==
  /\ variant = "gap"
  /\ \E i, j \in DOMAIN cars :
       /\ cars[i].crossed
       /\ cars[i].direction = "S"
       /\ GapFrontPos(cars[i]) > (STOP_LINES("S") + 100) * PX
       /\ ~cars[j].crossed
\* C16: in the slot script a car that holds slot 0 advances into the
\* intersection on every tick in which its direction is the active green
\* (and so is eventually marked crossed and removed).
C16_SlotZeroAdvances ==
  [][variant = "slot" =>
       \A i \in DOMAIN cars :
         (/\ i \in DOMAIN cars'
          /\ ~cars[i].crossed
          /\ cars[i].slot = 0
          /\ signal'.phase = "green"
          /\ signal'.dir = cars[i].dir)
           => cars'[i].pos # cars[i].pos]_vars
----------------------------------------------------------------------------
\* the slots of direction d that `filled` of spawn() does not include
SlotFree(cs, d) ==
  {s \in 0 .. SLOTS_MAX - 1 :
     \A i \in DOMAIN cs : cs[i].dir = d => cs[i].slot # s}

\* the frame whose spawn() reads the cars of this state is a spawn frame
SpawnFrameNext == (frame + 1) % SPAWN_INTERVAL = 0

\* C17: whenever spawn() of the slot script creates a car, it is one car of
\* the drawn direction, appended at the highest slot index that no car of
\* that direction holds; right after the spawn no other car of the
\* direction has the slot index of the new car.
C17_SpawnHighestFree ==
  variant = "slot" =>
    \A d \in Dirs, sp \in SlotSpeeds :
      LET after == SlotSpawn(cars, frame + 1, d, sp)
          new == after[Len(after)]
      IN  after # cars =>
            /\ SpawnFrameNext
            /\ Len(after) = Len(cars) + 1
            /\ SubSeq(after, 1, Len(cars)) = cars
            /\ new.dir = d
            /\ ~new.crossed
            /\ new.slot \in SlotFree(cars, d)
            /\ \A s \in SlotFree(cars, d) : s <= new.slot
            /\ \A i \in DOMAIN cars : cars[i].dir = d => cars[i].slot # new.slot

\* a spawn frame of the slot script with E cars in slots 7 and 6 and slot 5
\* the highest free one, where spawn() puts the new E car
C17_Witness ==
  /\ variant = "slot"
  /\ SpawnFrameNext
  /\ \E i, j \in DOMAIN cars :
       /\ cars[i].dir = "E" /\ cars[i].slot = SLOTS_MAX - 1
       /\ cars[j].dir = "E" /\ cars[j].slot = SLOTS_MAX - 2
  /\ LET after == SlotSpawn(cars, frame + 1, "E", PX)
     IN  /\ Len(after) = Len(cars) + 1
         /\ after[Len(after)].slot = SLOTS_MAX - 3

\* C18: on a spawn tick of the slot script with fewer than MAX_CARS cars and
\* a free slot in some direction, spawn() creates a car whatever direction
\* it draws first (a full direction is skipped for another one).
C18_SpawnTriesOtherDirections ==
  variant = "slot" =>
    ((/\ SpawnFrameNext
      /\ Len(cars) < MAX_CARS
      /\ \E d \in Dirs : SlotFree(cars, d) # {})
       => \A d \in Dirs, sp \in SlotSpeeds :
            LET after == SlotSpawn(cars, frame + 1, d, sp)
            IN  /\ Len(after) = Len(cars) + 1
                /\ SlotFree(cars, after[Len(after)].dir) # {})
----------------------------------------------------------------------------
\* C19: in every reachable state the number of live vehicles is at most the
\* cap of the script: MAX_CARS in part_000 and in the slot script,
\* maxVehicles in the dens script, the vehicles of the start included; and
\* no spawn reading a reachable state leaves more.
C19_VehicleCap ==
  /\ variant = "gap" =>
       /\ Len(cars) <= MAX_CARS
       /\ \A d \in Dirs :
            Len(trySpawn(cars, frame + 1, d, (12 * PX) \div 10, 100)) <= MAX_CARS
  /\ variant = "slot" =>
       /\ Len(cars) <= MAX_CARS
       /\ \A d \in Dirs : Len(SlotSpawn(cars, frame + 1, d, PX)) <= MAX_CARS
  /\ variant = "dens" =>
       /\ Len(vehicles) <= maxVehicles
       /\ \A d \in Dirs :
            Len(spawnRoutine(vehicles, spawnCounter, d, "car", "straight", 0,
                             Q)) <= maxVehicles

\* part_000 holding MAX_CARS cars when the next frame is a spawn frame
C19_Witness ==
  /\ variant = "gap"
  /\ Len(cars) = MAX_CARS
  /\ SpawnFrameNext
----------------------------------------------------------------------------
\* C20: a car is removed only after it has crossed: no car of part_000 or
\* of the slot script that the offscreen() test of the next frame deletes
\* is a car not marked crossed.
C20_RemovedOnlyAfterCrossing ==
  /\ variant = "gap" =>
       \A dr \in GapDraws(frame + 1) :
         LET sig == GapSignalTick(signal, waitingCountsAll(cars))
             spawned == trySpawn(cars, frame + 1, dr[1], dr[2], dr[3])
         IN  \A i \in DOMAIN spawned :
               LET c == CarMove(spawned, i, GapState(sig), sig.dir)
               IN  GapOffscreen(c) => c.crossed
  /\ variant = "slot" =>
       \A dr \in SlotDraws(frame + 1) :
         LET sig == SlotSignalTick(signal, cars)
             spawned == SlotSpawn(cars, frame + 1, dr[1], dr[2])
         IN  \A i \in DOMAIN spawned :
               LET c == CarUpdate(spawned[i], SlotState(sig), SlotCurrent(sig))
               IN  SlotOffscreen(c) => c.crossed
----------------------------------------------------------------------------
(* The dens script with desired speeds off the grid of accelRate: rand(0.85,
   1.2) gives a car any speed of the interval, and the ones that are not a
   multiple of accelRate are those the Math.min clamp of step() cuts. *)

\* desired speeds of the cars: 0.848, 0.916 and 1.1 px per frame
ClampSpeeds == {(848 * Q) \div 1000, (916 * Q) \div 1000, (110 * Q) \div 100}

\* INIT with the 22 vehicles cars of one drawn speed
InitSpeed ==
  /\ variant = "dens"
  /\ signalState = [dir |-> "N", phase |-> "green"]
  /\ timerFrames = baseGreenSec * fps
  /\ spawnCounter = 0
  /\ \E r1, r2 \in DensOffsets, sc \in ClampSpeeds :
       vehicles =
         [i \in 1 .. 16 |->
            NewVehicle(DIRS[((i - 1) % 4) + 1], "car", "straight",
                       IF i <= 4 THEN r1 ELSE r2, sc)]
         \o [i \in 1 .. 6 |->
               NewVehicle(DIRS[((i - 1) % 4) + 1], "car", "straight", r2, sc)]
  /\ frame = 0
  /\ signal = SlotSignalInit
  /\ cars = <<>>
  /\ IdleHist

SpecSpeed == InitSpeed /\ [][NextDens]_vars

\* C21: the speed clamps of Vehicle.step.  In every reachable state of the
\* dens script 0 <= v <= desiredV; a step that raises v raises it by
\* accelRate, or to desiredV exactly when less is missing; a step that
\* lowers v lowers it by a braking rate, or to 0 exactly when less is left;
\* v rests only at 0 or at desiredV.
C21_SpeedClamps ==
  variant = "dens" =>
    \A i \in DOMAIN vehicles :
      LET c == vehicles[i]
      IN  /\ c.v \in 0 .. c.desiredV
          /\ \A ss \in SignalStates :
               LET n == step(vehicles, i, ss)
               IN  /\ n.v \in 0 .. c.desiredV
                   /\ n.desiredV = c.desiredV
                   /\ n.v > c.v => n.v = Min(c.desiredV, c.v + accelRate)
                   /\ n.v < c.v =>
                        n.v \in {Max(0, c.v - decelRate),
                                 Max(0, c.v - (12 * decelRate) \div 10)}
                   /\ n.v = c.v => c.v \in {0, c.desiredV}

\* a vehicle that has accelerated from 0 to exactly desiredV (a speed that
\* is not a multiple of accelRate), and another that has left its
\* start position and braked to exactly 0
C21_Witness ==
  /\ variant = "dens"
  /\ \E i, j \in DOMAIN vehicles :
       /\ vehicles[i].v = vehicles[i].desiredV
       /\ vehicles[i].desiredV % accelRate # 0
       /\ vehicles[j].v = 0
       /\ \A r \in DensOffsets :
            vehicles[j].pos # NewVehicle(vehicles[j].dir, vehicles[j].kind,
                                         vehicles[j].turn, r, 0).pos
----------------------------------------------------------------------------
\* Signal.countdown() / secLeft of updateAndDraw, given the frames left
countdown(framesLeft) == Max(0, Ceil(framesLeft, FPS))

\* C22: after every tick the frames left of the running phase are at least 1
\* (the counter is reset in the tick in which it reaches 0), so the
\* countdown shown is never negative and equals ceil(framesLeft / FPS), the
\* clamp to 0 never cutting it.
C22_Countdown ==
  LET left == FramesLeft
  IN  /\ left >= 1
      /\ countdown(left) >= 0
      /\ countdown(left) = Ceil(left, FPS)
      /\ countdown(left) * FPS >= left
      /\ (countdown(left) - 1) * FPS < left

\* the last tick of a yellow of the dens script: one frame left, shown as 1
C22_Witness ==
  /\ variant = "dens"
  /\ signalState.phase = "yellow"
  /\ timerFrames = 1
  /\ countdown(FramesLeft) = 1
----------------------------------------------------------------------------
\* the distance from the stop line outward to the leading edge of slot car c
SlotFrontOutward(c) ==
  IF c.dir \in {"N", "W"} THEN SlotFront(c) - STOP_slot(c.dir) * PX
                          ELSE STOP_slot(c.dir) * PX - SlotFront(c)

\* the CAR_LEN-long boxes of slot cars a and b share no point of the lane
SlotBoxesApart(a, b) ==
  \/ a.pos + CAR_LEN * PX < b.pos
  \/ b.pos + CAR_LEN * PX < a.pos

\* C23: the slot geometry.  For every direction and slot index i a car
\* placed at SLOT_POS[dir][i] has its leading edge exactly (i+1)*SLOT_GAP
\* outward from the stop line, and its box does not meet the box of a car
\* placed at slot i-1 or i+1; so has every car spawn() creates.
C23_SlotGeometry ==
  variant = "slot" =>
    /\ \A d \in Dirs, i \in 0 .. SLOTS_MAX - 1, sp \in SlotSpeeds :
         LET c == NewSlotCar(d, i, sp)
         IN  /\ SlotFrontOutward(c) = (i + 1) * SLOT_GAP * PX
             /\ i > 0 => SlotBoxesApart(c, NewSlotCar(d, i - 1, sp))
             /\ i < SLOTS_MAX - 1 => SlotBoxesApart(c, NewSlotCar(d, i + 1, sp))
    /\ \A d \in Dirs, sp \in SlotSpeeds :
         LET after == SlotSpawn(cars, frame + 1, d, sp)
             new == after[Len(after)]
         IN  after # cars =>
               /\ SlotFrontOutward(new) = (new.slot + 1) * SLOT_GAP * PX
               /\ \A j \in DOMAIN cars :
                    (/\ cars[j].dir = d
                     /\ cars[j].pos = SLOT_POS(d, cars[j].slot)
                     /\ cars[j].slot \in {new.slot - 1, new.slot + 1})
                      => SlotBoxesApart(new, cars[j])

\* a spawn frame with an E car standing at the coordinate of slot 6 while
\* spawn() places the new E car at slot 5
C23_Witness ==
  /\ variant = "slot"
  /\ SpawnFrameNext
  /\ \E j \in DOMAIN cars :
       /\ cars[j].dir = "E"
       /\ cars[j].slot = 6
       /\ cars[j].pos = SLOT_POS("E", 6)
  /\ LET after == SlotSpawn(cars, frame + 1, "E", PX)
     IN  /\ Len(after) = Len(cars) + 1
         /\ after[Len(after)].slot = 5
----------------------------------------------------------------------------
(* "rot" script: src/unnamed/part_001, the fixed rotation.  signal holds
   index and timeLeft, cars the array of positions of each direction (px);
   recent holds the directions the last four switches turned green and
   sinceGreen the calls since the last switch.  The script draws nothing at
   random: it has one run. *)

\* frames of the run
MaxFrameRot == 1400

\* getAdaptiveTime() reading the direction that was green before
getAdaptiveTime_Old(cs, index) ==
  Min(25, 10 + Len(cs[DIRS[((index + 3) % 4) + 1]]) * 2)

\* getAdaptiveTime(), reading the cars cs and the index
getAdaptiveTime(cs, index) == Min(25, 10 + Len(cs[DIRS[index + 1]]) * 2)

\* moveCars(): the cars of the green direction move by speed = 2, then the
\* four respawn tests on the first car of each array
moveCars(cs, index) ==
  LET dir == DIRS[index + 1]
      speed == 2
      moved == [d \in Dirs |->
                  IF d # dir THEN cs[d]
                  ELSE [k \in DOMAIN cs[d] |->
                          IF d \in {"N", "W"} THEN cs[d][k] - speed
                                              ELSE cs[d][k] + speed]]
  IN  [d \in Dirs |->
         CASE d = "N" -> IF moved[d][1] < -50 THEN Append(moved[d], 500) ELSE moved[d]
           [] d = "S" -> IF moved[d][1] > 550 THEN <<-50>> \o moved[d] ELSE moved[d]
           [] d = "E" -> IF moved[d][1] > 950 THEN <<0>> \o moved[d] ELSE moved[d]
           [] d = "W" -> IF moved[d][1] < -50 THEN Append(moved[d], 900) ELSE moved[d]]

\* updateSignal(), reading the cars cs
updateSignal(sig, cs) ==
  IF sig.timeLeft - 1 <= 0
    THEN LET index == (sig.index + 1) % 4
         IN  [index |-> index, timeLeft |-> getAdaptiveTime(cs, index)]
    ELSE [sig EXCEPT !.timeLeft = @ - 1]

\* index = 0, timeLeft = 15 and five cars per direction, 60 px apart
InitRot ==
  /\ variant = "rot"
  /\ signal = [index |-> 0, timeLeft |-> 15]
  /\ cars = [d \in Dirs |->
               [i \in 1 .. 5 |->
                  CASE d = "N" -> 550 + (i - 1) * 60
                    [] d = "S" -> 50 - (i - 1) * 60
                    [] d = "E" -> 100 - (i - 1) * 60
                    [] d = "W" -> 700 + (i - 1) * 60]]
  /\ frame = 0
  /\ IdleDens
  /\ IdleHist

\* draw(): moveCars(), then updateSignal()
draw ==
  /\ variant = "rot"
  /\ frame < MaxFrameRot
  /\ frame' = frame + 1
  /\ cars' = moveCars(cars, signal.index)
  /\ signal' = updateSignal(signal, cars')
  /\ recent' = IF signal'.index # signal.index
                 THEN LastN(Append(recent, DIRS[signal'.index + 1]), 4)
                 ELSE recent
  /\ sinceGreen' = IF signal'.index # signal.index THEN 0 ELSE sinceGreen + 1
  /\ UNCHANGED <<variant, densVars, waiting, zeroRun>>

NextRot == draw

SpecRot == InitRot /\ [][NextRot]_vars

\* C24: in part_001 the green direction advances to the next one of N, E,
\* S, W exactly on the call of updateSignal in which timeLeft reaches 0 and
\* on no other call; the new timeLeft is min(25, 10 + 2 * cars of the new
\* green direction); timeLeft is between 1 and 25 after every call, so a
\* switch comes within 25 calls, and any four consecutive switches turn
\* every direction green once.
C24_FixedRotation ==
  [][variant = "rot" =>
       /\ signal.timeLeft \in 1 .. 25
       /\ (signal'.index # signal.index) <=> (signal.timeLeft - 1 = 0)
       /\ signal.timeLeft - 1 = 0 =>
            /\ signal'.index = (signal.index + 1) % 4
            /\ signal'.timeLeft =
                 Min(25, 10 + 2 * Len(cars'[DIRS[signal'.index + 1]]))
       /\ signal.timeLeft - 1 # 0 => signal'.timeLeft = signal.timeLeft - 1
       /\ sinceGreen' < 25
       /\ Len(recent') = 4 => {recent'[k] : k \in 1 .. 4} = Dirs]_vars

\* a switch to N with more than eight N cars (the cap of 25 applies), after
\* four switches or more
C24_Witness ==
  /\ variant = "rot"
  /\ Len(recent) = 4
  /\ sinceGreen = 0
  /\ signal.index = 0
  /\ Len(cars["N"]) > 8
  /\ signal.timeLeft = 25
----------------------------------------------------------------------------
\* the loop `for(let i=cars.length-1; i>=0; i--)` of loop() updates the car
\* at array index i before the car at index j
UpdatedBefore(i, j) == i > j

\* C25: in a tick of the slot script, of two cars not crossed of the same
\* direction the one with the lower slot index is updated before the one
\* with the higher slot index.
C25_NearestFirst ==
  variant = "slot" =>
    \A dr \in SlotDraws(frame + 1) :
      LET spawned == SlotSpawn(cars, frame + 1, dr[1], dr[2])
      IN  \A i, j \in DOMAIN spawned :
            (/\ spawned[i].dir = spawned[j].dir
             /\ ~spawned[i].crossed
             /\ ~spawned[j].crossed
             /\ spawned[i].slot < spawned[j].slot)
              => UpdatedBefore(i, j)
----------------------------------------------------------------------------
\* C26: in the slot script a car not crossed that does not move during a
\* tick (the light or the slot ahead blocks it) stands, after the tick,
\* exactly at the reserved coordinate SLOT_POS[dir][slot] of its slot.
C26_BlockedCarAtSlot ==
  [][variant = "slot" =>
       \A i \in DOMAIN cars :
         (/\ i \in DOMAIN cars'
          /\ cars'[i].dir = cars[i].dir
          /\ ~cars'[i].crossed
          /\ ~cars'[i].nan
          /\ cars'[i].pos = cars[i].pos)
           => cars'[i].pos = SLOT_POS(cars'[i].dir, cars'[i].slot)]_vars
----------------------------------------------------------------------------
(* A long run of the dens script, past the frames in which the first lane
   empties and spawnRoutine() pushes vehicles; the tries of spawnRoutine()
   are followed one by one in the order drawn. *)

\* frames of the long run
MaxFrameDensRun == 1300

\* the orders in which `order.splice(idx,1)[0]` can hand out the directions
SpawnOrders ==
  {o \in [1 .. 4 -> Dirs] : \A a, b \in 1 .. 4 : a # b => o[a] # o[b]}

\* the loop of spawnRoutine() giving up after the first try
SpawnTry_Once(vs, order, i) ==
  IF canSpawn(vs, order[i]) THEN order[i] ELSE "none"

\* the loop `for(let i=0;i<4;i++)` of spawnRoutine() from try i on: the
\* first direction of the order that passes canSpawn, or "none"
RECURSIVE SpawnTry(_, _, _)
SpawnTry(vs, order, i) ==
  IF i > 4 THEN "none"
  ELSE IF canSpawn(vs, order[i]) THEN order[i]
  ELSE SpawnTry(vs, order, i + 1)

\* spawnRoutine() with the order of the tries drawn
spawnRoutineTries(vs, sc, order, kind, turn, r, desiredV) ==
  IF sc + 1 < spawnIntervalFrames THEN vs
  ELSE IF Len(vs) >= maxVehicles THEN vs
  ELSE LET d == SpawnTry(vs, order, 1)
       IN  IF d = "none" THEN vs
           ELSE Append(vs, NewVehicle(d, kind, turn, r, desiredV))

\* INIT with every rand(0,80) = 0 and 22 cars of speed 1.1
InitDensRun ==
  /\ InitDens
  /\ \A i \in DOMAIN vehicles :
       vehicles[i] = NewVehicle(vehicles[i].dir, "car", "straight", 0,
                                (110 * Q) \div 100)

\* updateAndDraw() of the dens script, the tries of spawnRoutine() drawn
updateAndDraw_tries(order, kind, turn, r, desiredV) ==
  /\ variant = "dens"
  /\ frame < MaxFrameDensRun
  /\ frame' = frame + 1
  /\ LET sw == evaluateAndSwitch(signalState, timerFrames, densCount(vehicles))
         spawned == spawnRoutineTries(vehicles, spawnCounter, order, kind, turn,
                                      r, desiredV)
         stepped == StepAll(spawned, 1, sw.ss)
     IN  /\ signalState' = sw.ss
         /\ timerFrames' = sw.tf
         /\ vehicles' = SortVehicles(SelectSeq(stepped, LAMBDA v : ~offscreen(v)))
  /\ spawnCounter' = spawnCounterNext(spawnCounter)
  /\ UNCHANGED <<variant, signal, cars, histVars>>

\* the draws of a frame of the long run
DensRunDraws ==
  IF spawnCounter + 1 >= spawnIntervalFrames /\ Len(vehicles) < maxVehicles
    THEN {<<o, k, t, r, sv>> \in SpawnOrders \X Kinds \X DensTurns \X DensOffsets
                                   \X UNION {baseSpeed(kk) : kk \in Kinds} :
            sv \in baseSpeed(k)}
    ELSE {<<DIRS, "car", "straight", 0, Q>>}

NextDensRun ==
  \E dr \in DensRunDraws : updateAndDraw_tries(dr[1], dr[2], dr[3], dr[4], dr[5])

SpecDensRun == InitDensRun /\ [][NextDensRun]_vars
\* the live vehicles of direction d
DirCount(vs, d) == Cardinality({i \in DOMAIN vs : vs[i].dir = d})

\* C27: spawnRoutine of the dens script adds at most one vehicle per tick
\* and only on a tick in which the spawn counter reaches
\* spawnIntervalFrames, which is every spawnIntervalFrames-th tick; on such
\* a tick, with fewer than maxVehicles vehicles, it adds a vehicle if and
\* only if at least one of the four directions passes canSpawn.
C27_SpawnRoutine ==
  [][variant = "dens" =>
       LET due == spawnCounter + 1 >= spawnIntervalFrames
       IN  /\ spawnCounter = frame % spawnIntervalFrames
           /\ due <=> (frame' % spawnIntervalFrames = 0)
           /\ Len(vehicles') <= Len(vehicles) + 1
           /\ Len(vehicles') > Len(vehicles) => due
           /\ \A dr \in DensRunDraws :
                LET after == spawnRoutineTries(vehicles, spawnCounter, dr[1],
                                               dr[2], dr[3], dr[4], dr[5])
                IN  /\ Len(after) \in {Len(vehicles), Len(vehicles) + 1}
                    /\ SubSeq(after, 1, Len(vehicles)) = vehicles
                    /\ after # vehicles => due
                    /\ (due /\ Len(vehicles) < maxVehicles) =>
                         ((after # vehicles)
                            <=> \E d \in Dirs : canSpawn(vehicles, d))]_vars

\* a spawn tick has just added an N vehicle, the only direction that passed
\* canSpawn: it stands at its start position while the other lanes still
\* hold their vehicles
C27_Witness ==
  /\ variant = "dens"
  /\ frame > 0
  /\ frame % spawnIntervalFrames = 0
  /\ DirCount(vehicles, "N") = 1
  /\ \E i \in DOMAIN vehicles :
       /\ vehicles[i].dir = "N"
       /\ ~vehicles[i].crossed
       /\ vehicles[i].pos \in {(LANE_start("N") + r) * Q : r \in DensOffsets}
  /\ \A d \in Dirs \ {"N"} : DirCount(vehicles, d) > 1

\* C29: in the dens script canSpawn(dir) holds only when no live vehicle,
\* crossed or not, has that direction, and spawnRoutine adds a vehicle only
\* to such a direction; so the number of vehicles of a direction grows only
\* from 0 to 1, and a direction whose start vehicles have left never holds
\* more than one.
C29_OnePerEmptiedLane ==
  [][variant = "dens" =>
       /\ \A d \in Dirs : canSpawn(vehicles, d) <=> DirCount(vehicles, d) = 0
       /\ \A d \in Dirs :
            DirCount(vehicles', d) > DirCount(vehicles, d)
              => (DirCount(vehicles, d) = 0 /\ DirCount(vehicles', d) = 1)
       /\ \A dr \in DensRunDraws :
            LET after == spawnRoutineTries(vehicles, spawnCounter, dr[1],
                                           dr[2], dr[3], dr[4], dr[5])
            IN  after # vehicles => canSpawn(vehicles, after[Len(after)].dir)]_vars

\* the N lane, emptied of its start vehicles, holds the one vehicle spawned
\* into it at a later spawn tick, which finds no direction to spawn into
C29_Witness ==
  /\ variant = "dens"
  /\ DirCount(vehicles, "N") = 1
  /\ spawnCounter + 1 >= spawnIntervalFrames
  /\ \A d \in Dirs : ~canSpawn(vehicles, d)
----------------------------------------------------------------------------
(* part_000, a car approaching its stop line while its green runs out: the
   car is alone, its direction green with a few frames left, its leading
   edge up to ApproachDist tenths of a pixel before the line. *)

\* speeds of rand(1.2, 1.8), in tenths of a pixel per frame
ApproachSpeeds == 12 .. 17

\* distance of the leading edge from the line at the start, in tenths
ApproachDist == 350

\* frames of green left at the start
ApproachGreenLeft == {1, 12}

\* frames followed
MaxFrameApproach == 30

\* the position of a car of direction d whose leading edge is dist before
\* the line
ApproachPos(d, dist) ==
  CASE d = "N" -> STOP_LINES("N") * PX + dist
    [] d = "W" -> STOP_LINES("W") * PX + dist
    [] d = "S" -> STOP_LINES("S") * PX - dist - CAR_LENGTH * PX
    [] d = "E" -> STOP_LINES("E") * PX - dist - CAR_LENGTH * PX

InitApproach ==
  /\ variant = "gap"
  /\ \E d \in Dirs, sp \in ApproachSpeeds, dist \in 0 .. ApproachDist,
        left \in ApproachGreenLeft :
       /\ signal = [dir |-> d, phase |-> "green", timer |-> 0,
                    greenFrames |-> BASE_GREEN_FRAMES, timerFramesLeft |-> left]
       /\ cars = <<[direction |-> d, speed |-> sp, crossed |-> FALSE,
                    pos |-> ApproachPos(d, dist)]>>
  /\ frame = 0
  /\ IdleDens
  /\ IdleHist

\* updateAndDraw() of part_000 (no spawn frame falls into the frames followed)
approachFrame ==
  /\ variant = "gap"
  /\ frame < MaxFrameApproach
  /\ frame' = frame + 1
  /\ signal' = GapSignalTick(signal, waitingCountsAll(cars))
  /\ LET spawned == trySpawn(cars, frame', "N", (12 * PX) \div 10, 100)
     IN  cars' = GapMoveAll(spawned, Len(spawned), GapState(signal'), signal'.dir)
  /\ UNCHANGED <<variant, densVars, histVars>>

NextApproach == approachFrame

SpecApproach == InitApproach /\ [][NextApproach]_vars

\* C28: in part_000 the leading edge of a car moves past its stop line only
\* in a tick in which the light of its direction is GREEN; on YELLOW or RED
\* a car not crossed never passes the line.
C28_PassLineOnlyOnGreen ==
  [][variant = "gap" =>
       \A i \in DOMAIN cars :
         (/\ i \in DOMAIN cars'
          /\ cars'[i].direction = cars[i].direction
          /\ ~GapPastLine(cars[i])
          /\ GapPastLine(cars'[i]))
           => GapState(signal')[cars[i].direction] = "GREEN"]_vars

\* a car that ran into the yellow and has stopped inside the stop zone, its
\* leading edge less than STOP_OFFSET before the line
C28_Witness ==
  /\ variant = "gap"
  /\ signal.phase = "yellow"
  /\ signal.timer >= 10
  /\ \E i \in DOMAIN cars :
       /\ cars[i].direction = signal.dir
       /\ ~cars[i].crossed
       /\ ~GapPastLine(cars[i])
       /\ GapNearLine(cars[i])
       /\ cars[i].pos # ApproachPos(cars[i].direction, 0)
----------------------------------------------------------------------------
\* the cars of cs equal to c in direction, speed, crossed and position
SameCars(cs, c) == {j \in DOMAIN cs : cs[j] = c}

\* C30: a tick of part_000 leaves every car not crossed whose direction is
\* not the current direction of the signal where it is (such a car does not
\* approach its stop line while another direction is active); only cars of
\* the current direction and crossed cars change position.
C30_OnlyCurrentDirectionMoves ==
  [][variant = "gap" =>
       \A i \in DOMAIN cars :
         LET c == cars[i]
             m == CarMove(cars, i, GapState(signal'), signal'.dir)
         IN  /\ (~c.crossed /\ c.direction # signal'.dir /\ ~GapOffscreen(c))
                  => Cardinality(SameCars(cars', c))
                       >= Cardinality(SameCars(cars, c))
             /\ m.pos # c.pos => (m.crossed \/ c.direction = signal'.dir)
             /\ (~c.crossed /\ c.direction # signal'.dir) => m = c]_vars

\* S is green and the S car of the start has moved on and crossed, while
\* an E car spawned at least 400 frames ago still stands where it was
\* created
C30_Witness ==
  /\ variant = "gap"
  /\ frame >= 500
  /\ signal.dir = "S"
  /\ \E i, j \in DOMAIN cars :
       /\ cars[i].direction = "S"
       /\ cars[i].crossed
       /\ cars[j] = NewGapCar("E", (12 * PX) \div 10, 100)
  /\ Cardinality(SameCars(cars, NewGapCar("E", (12 * PX) \div 10, 100))) >= 9
----------------------------------------------------------------------------
\* C31: in the slot script the slot index of every car lies in
\* 0 .. SLOTS_MAX-1; Car.update never raises it and lowers it by at most 1,
\* and a car created by spawn() gets an index in that range.
C31_SlotIndexRange ==
  [][variant = "slot" =>
       LET state == SlotState(signal')
           upd == [i \in DOMAIN cars |->
                     CarUpdate(cars[i], state, SlotCurrent(signal'))]
       IN  /\ \A i \in DOMAIN cars : cars[i].slot \in 0 .. SLOTS_MAX - 1
           /\ \A i \in DOMAIN cars' : cars'[i].slot \in 0 .. SLOTS_MAX - 1
           /\ \A i \in DOMAIN cars :
                /\ upd[i].slot \in 0 .. SLOTS_MAX - 1
                /\ upd[i].slot <= cars[i].slot
                /\ upd[i].slot >= cars[i].slot - 1
           /\ \A dr \in SlotDraws(frame') :
                LET sp == SlotSpawn(cars, frame', dr[1], dr[2])
                IN  \A i \in DOMAIN sp : sp[i].slot \in 0 .. SLOTS_MAX - 1
           /\ (\A i \in DOMAIN cars : ~SlotOffscreen(upd[i]))
                => \A i \in DOMAIN cars :
                     /\ cars'[i].slot <= cars[i].slot
                     /\ cars'[i].slot >= cars[i].slot - 1]_vars

\* a car created at slot SLOTS_MAX-1 has come down to slot 0, one slot at
\* a time, while a car created later is still at slot SLOTS_MAX-1
C31_Witness ==
  /\ variant = "slot"
  /\ \E i, j \in DOMAIN cars :
       /\ i < j
       /\ cars[i].dir = cars[j].dir
       /\ cars[i].slot = 0
       /\ cars[i].pos = SLOT_POS(cars[i].dir, 0)
       /\ cars[j].slot = SLOTS_MAX - 1
----------------------------------------------------------------------------
\* Car.update reaches the division by dist: the car is not crossed, its
\* front is not past the stop line, stop is false and slot > 0
SlotDivides(c, state, curGreen) ==
  /\ ~c.crossed
  /\ ~SlotPastLine(c)
  /\ (state[c.dir] = "GREEN" \/ (c.slot = 0 /\ c.dir = curGreen))
  /\ c.slot > 0

\* dist of Car.update: the distance to SLOT_POS[dir][slot-1] (dx or dy is 0)
SlotDist(c) == Abs(SLOT_POS(c.dir, c.slot - 1) - c.pos)

\* C32: in the slot script, whenever Car.update divides by dist, dist is not
\* zero, whatever the speed drawn (1.0 included); no car's position becomes
\* NaN.
C32_DistNonZero ==
  variant = "slot" =>
    LET sig == SlotSignalTick(signal, cars)
    IN  \A i \in DOMAIN cars :
          /\ ~cars[i].nan
          /\ (~cars[i].nan /\ SlotDivides(cars[i], SlotState(sig), SlotCurrent(sig)))
               => SlotDist(cars[i]) # 0
----------------------------------------------------------------------------
\* C33: in part_001 the number of cars of every direction stays bounded: it
\* never exceeds 6 (the 5 cars of the start and one respawn), and a call of
\* draw() adds a car to a direction only if one has left.
C33_CountsBounded ==
  variant = "rot" => \A d \in Dirs : Len(cars[d]) <= 6

====
